---- MODULE Spec2Model ----
(***************************************************************************)
(* A model of the matching engine: the instrument registry                 *)
(* (InstrumentManager), the order validators (Order), the order book and   *)
(* its matching sweep (OrderBook) and the engine with its worker thread    *)
(* (MatchingEngine).                                                       *)
(*                                                                         *)
(* Prices are fixed-point integers counting 10^-PriceScale currency units, *)
(* so 148000 is 148.000.  Time is counted in whole hours.                  *)
(***************************************************************************)
EXTENDS Integers, Sequences, FiniteSets, TLC

VARIABLES
    instruments,      \* InstrumentManager::instruments (vector, insertion order)
    instrumentSet,    \* InstrumentManager::instrumentSet (set of key triples)
    bidOrders,        \* OrderBook::bidOrders: levels by descending price
    askOrders,        \* OrderBook::askOrders: levels by ascending price
    trades,           \* OrderBook::trades (the trade log)
    nextTradeId,      \* OrderBook::nextTradeId
    isRunning,        \* MatchingEngine::isRunning
    stats,            \* MatchingEngine::stats
    workerPc,         \* position of the worker thread in MatchingEngine::run
    workerNow,        \* run(): the local `now` of the current iteration
    lastStatsReset,   \* run(): local lastStatsReset
    lastGTDCheck,     \* run(): local lastGTDCheck
    ctl,              \* position of the thread calling start()/stop()
    pc,               \* per submitter: position in addAndValidateOrder
    cur,              \* per submitter: the Order passed to addAndValidateOrder
    matches,          \* per submitter: local `matches` of addAndValidateOrder
    result,           \* per submitter: last return value of addAndValidateOrder
    local,            \* per submitter: locals of updateStats (tradeValue, loaded volume)
    now,              \* the system clock, in hours
    nextOrderId,      \* the callers' order id counter (orderId++ / nextOrderId++)
    accepted,         \* history: the orders that entered the book, as inserted
    expired,          \* history: the orders removed by checkGTDOrders, as removed
    regLog,           \* history: the addInstrument calls and their results
    bookDisplayMutex,   \* OrderBook::displayMutex: the thread that holds it
    engineDisplayMutex  \* MatchingEngine::displayMutex: the thread that holds it

vars == <<instruments, instrumentSet, bidOrders, askOrders, trades, nextTradeId,
          isRunning, stats, workerPc, workerNow, lastStatsReset, lastGTDCheck,
          ctl, pc, cur, matches, result, local, now, nextOrderId, accepted,
          expired, regLog, bookDisplayMutex, engineDisplayMutex>>

registryVars == <<instruments, instrumentSet>>
bookVars == <<bidOrders, askOrders, trades, nextTradeId>>
workerVars == <<workerPc, workerNow, lastStatsReset, lastGTDCheck>>
submitVars == <<pc, cur, matches, result, local>>
mutexVars == <<bookDisplayMutex, engineDisplayMutex>>

-----------------------------------------------------------------------------
(* Bounds of the model *)

MaxOrders == 3
MaxTime == 2
NumSubmitters == 2
PriceScale == 3
MaxRegs == 3
MaxAttempts == 2

(* Program constants *)

GTDCheckHours == 1
DailyResetHours == 24
ToleranceDigits == 8

Submitters == 1..NumSubmitters

RECURSIVE Pow10(_)
Pow10(n) ==
    IF n = 0 THEN 1 ELSE 10 * Pow10(n - 1)

PriceUnit == Pow10(PriceScale)

Abs(x) ==
    IF x < 0 THEN -x ELSE x

Min(a, b) ==
    IF a <= b THEN a ELSE b

-----------------------------------------------------------------------------
(* Instruments and the registry *)

Key(x) ==
    <<x.idinstrument, x.marketIdentificationCode, x.tradingCurrency>>

Instrument(id, mic, ccy, lot, dec) ==
    [idinstrument |-> id, marketIdentificationCode |-> mic, tradingCurrency |-> ccy,
     lotsize |-> lot, pricedecimal |-> dec]

\* A variant of isUniqueInstrument that looks at the instrument id alone.
isUniqueInstrumentById(set, instrument) ==
    \A k \in set : k[1] # instrument.idinstrument

isUniqueInstrument(set, instrument) ==
    Key(instrument) \notin set

\* InstrumentManager::addInstrument as a function of the registry: the new
\* registry and the value returned.
addInstrument(reg, instrument) ==
    IF isUniqueInstrument(reg.instrumentSet, instrument)
    THEN [instrumentSet |-> reg.instrumentSet \cup {Key(instrument)},
          instruments |-> Append(reg.instruments, instrument),
          ok |-> TRUE]
    ELSE [instrumentSet |-> reg.instrumentSet,
          instruments |-> reg.instruments,
          ok |-> FALSE]

EmptyRegistry ==
    [instrumentSet |-> {}, instruments |-> <<>>, ok |-> TRUE]

RECURSIVE RegisterAll(_, _)
RegisterAll(reg, list) ==
    IF list = <<>> THEN reg
    ELSE RegisterAll(addInstrument(reg, Head(list)), Tail(list))

-----------------------------------------------------------------------------
(* Orders and the validators *)

Order(id, inst, mic, ccy, side, price, qty, tif, exp, prio) ==
    [idorder |-> id, idinstrument |-> inst, marketIdentificationCode |-> mic,
     tradingCurrency |-> ccy, ordertype |-> side, price |-> price,
     quantity |-> qty, originalqty |-> qty, timeinforce |-> tif,
     expirationDate |-> exp, priority |-> prio]

\* std::round of a positive value given in units of 10^-PriceScale.
RoundToInteger(scaled) ==
    ((scaled + PriceUnit \div 2) \div PriceUnit) * PriceUnit

validatePrice(order, instrument) ==
    IF order.price <= 0 THEN FALSE
    ELSE LET multipliedPrice == order.price * Pow10(instrument.pricedecimal)
             roundedPrice == RoundToInteger(multipliedPrice)
         IN  \* fabs(multipliedPrice - roundedPrice) > 1e-8 rejects; both sides
             \* of the comparison are multiplied by 10^ToleranceDigits / PriceUnit
             ~(Abs(multipliedPrice - roundedPrice)
                  * Pow10(ToleranceDigits - PriceScale) > 1)

\* A variant of validateQuantity without the lot test.
validateQuantityAnyLot(order, instrument) ==
    order.quantity > 0

validateQuantity(order, instrument) ==
    IF order.quantity <= 0 THEN FALSE
    ELSE order.quantity % instrument.lotsize = 0

\* The loop of addAndValidateOrder over getInstruments(): the first instrument
\* with the order's key decides; none means false.
RECURSIVE FindAndValidate(_, _, _)
FindAndValidate(insts, i, order) ==
    IF i > Len(insts) THEN FALSE
    ELSE IF Key(insts[i]) = Key(order)
         THEN validatePrice(order, insts[i]) /\ validateQuantity(order, insts[i])
         ELSE FindAndValidate(insts, i + 1, order)

-----------------------------------------------------------------------------
(* The order book *)

Level(p, q) ==
    [price |-> p, orders |-> q]

\* Key order of the two maps: std::greater<double> for bids, std::less for asks.
KeyBefore(side, a, b) ==
    IF side = "BID" THEN a > b ELSE a < b

\* A variant of PushOrder that queues the order at the head of its level.
PushOrderFront(side, levels, order) ==
    IF \E i \in 1..Len(levels) : levels[i].price = order.price
    THEN [i \in 1..Len(levels) |->
            IF levels[i].price = order.price
            THEN Level(levels[i].price, <<order>> \o levels[i].orders)
            ELSE levels[i]]
    ELSE LET k == Cardinality({i \in 1..Len(levels) :
                                 KeyBefore(side, levels[i].price, order.price)})
         IN  SubSeq(levels, 1, k) \o <<Level(order.price, <<order>>)>>
                 \o SubSeq(levels, k + 1, Len(levels))

\* map[price].push_back(order): the level is found, or created at its place.
PushOrder(side, levels, order) ==
    IF \E i \in 1..Len(levels) : levels[i].price = order.price
    THEN [i \in 1..Len(levels) |->
            IF levels[i].price = order.price
            THEN Level(levels[i].price, Append(levels[i].orders, order))
            ELSE levels[i]]
    ELSE LET k == Cardinality({i \in 1..Len(levels) :
                                 KeyBefore(side, levels[i].price, order.price)})
         IN  SubSeq(levels, 1, k) \o <<Level(order.price, <<order>>)>>
                 \o SubSeq(levels, k + 1, Len(levels))

addOrder(book, order) ==
    IF order.ordertype = "BID"
    THEN [book EXCEPT !.bids = PushOrder("BID", book.bids, order)]
    ELSE IF order.ordertype = "ASK"
         THEN [book EXCEPT !.asks = PushOrder("ASK", book.asks, order)]
         ELSE book

\* A variant of Compatible that does not compare the instrument ids.
CompatibleAnyInstrument(bidOrder, askOrder) ==
    /\ bidOrder.marketIdentificationCode = askOrder.marketIdentificationCode
    /\ bidOrder.tradingCurrency = askOrder.tradingCurrency

Compatible(bidOrder, askOrder) ==
    /\ bidOrder.idinstrument = askOrder.idinstrument
    /\ bidOrder.marketIdentificationCode = askOrder.marketIdentificationCode
    /\ bidOrder.tradingCurrency = askOrder.tradingCurrency

updateStats(st, trade) ==
    LET tradeValue == trade.quantity * trade.price
    IN  [st EXCEPT !.dailyTradeCount = @ + 1,
                   !.dailyVolume = @ + tradeValue,
                   !.totalTradeCount = @ + 1,
                   !.totalVolume = @ + tradeValue,
                   !.successfulMatches = @ + 1]

\* notifyMatch: the book's engine pointer is set by the engine's constructor.
notifyMatch(st, trade) ==
    updateStats(st, trade)

\* A variant of ExecuteTrade that does not decrement the ask.
ExecuteTradeKeepAsk(b, bi, aj, clock) ==
    LET bidOrder == b.bids[1].orders[bi]
        askOrder == b.asks[1].orders[aj]
        tradeQuantity == Min(bidOrder.quantity, askOrder.quantity)
        trade == [tradeId |-> b.nextTradeId,
                  buyOrderId |-> bidOrder.idorder,
                  sellOrderId |-> askOrder.idorder,
                  marketIdentificationCode |-> bidOrder.marketIdentificationCode,
                  tradingCurrency |-> bidOrder.tradingCurrency,
                  price |-> askOrder.price,
                  quantity |-> tradeQuantity,
                  timestamp |-> clock]
    IN  [b EXCEPT !.nextTradeId = @ + 1,
                  !.trades = Append(@, trade),
                  !.bids[1].orders[bi].quantity = @ - tradeQuantity,
                  !.tradesExecuted = @ + 1,
                  !.matchFound = TRUE]

\* A variant of ExecuteTrade that prices the trade at the bid's limit.
ExecuteTradeAtBid(b, bi, aj, clock) ==
    LET bidOrder == b.bids[1].orders[bi]
        askOrder == b.asks[1].orders[aj]
        tradeQuantity == Min(bidOrder.quantity, askOrder.quantity)
        trade == [tradeId |-> b.nextTradeId,
                  buyOrderId |-> bidOrder.idorder,
                  sellOrderId |-> askOrder.idorder,
                  marketIdentificationCode |-> bidOrder.marketIdentificationCode,
                  tradingCurrency |-> bidOrder.tradingCurrency,
                  price |-> bidOrder.price,
                  quantity |-> tradeQuantity,
                  timestamp |-> clock]
    IN  [b EXCEPT !.nextTradeId = @ + 1,
                  !.trades = Append(@, trade),
                  !.bids[1].orders[bi].quantity = @ - tradeQuantity,
                  !.asks[1].orders[aj].quantity = @ - tradeQuantity,
                  !.tradesExecuted = @ + 1,
                  !.matchFound = TRUE]

\* A variant of ExecuteTrade that gives every trade the same id.
ExecuteTradeSameId(b, bi, aj, clock) ==
    LET bidOrder == b.bids[1].orders[bi]
        askOrder == b.asks[1].orders[aj]
        tradeQuantity == Min(bidOrder.quantity, askOrder.quantity)
        trade == [tradeId |-> b.nextTradeId,
                  buyOrderId |-> bidOrder.idorder,
                  sellOrderId |-> askOrder.idorder,
                  marketIdentificationCode |-> bidOrder.marketIdentificationCode,
                  tradingCurrency |-> bidOrder.tradingCurrency,
                  price |-> askOrder.price,
                  quantity |-> tradeQuantity,
                  timestamp |-> clock]
    IN  [b EXCEPT !.trades = Append(@, trade),
                  !.stats = notifyMatch(@, trade),
                  !.bids[1].orders[bi].quantity = @ - tradeQuantity,
                  !.asks[1].orders[aj].quantity = @ - tradeQuantity,
                  !.tradesExecuted = @ + 1,
                  !.matchFound = TRUE]

\* A variant of ExecuteTrade that does not count the trade.
ExecuteTradeUncounted(b, bi, aj, clock) ==
    LET bidOrder == b.bids[1].orders[bi]
        askOrder == b.asks[1].orders[aj]
        tradeQuantity == Min(bidOrder.quantity, askOrder.quantity)
        trade == [tradeId |-> b.nextTradeId,
                  buyOrderId |-> bidOrder.idorder,
                  sellOrderId |-> askOrder.idorder,
                  marketIdentificationCode |-> bidOrder.marketIdentificationCode,
                  tradingCurrency |-> bidOrder.tradingCurrency,
                  price |-> askOrder.price,
                  quantity |-> tradeQuantity,
                  timestamp |-> clock]
    IN  [b EXCEPT !.nextTradeId = @ + 1,
                  !.trades = Append(@, trade),
                  !.stats = notifyMatch(@, trade),
                  !.bids[1].orders[bi].quantity = @ - tradeQuantity,
                  !.asks[1].orders[aj].quantity = @ - tradeQuantity,
                  !.matchFound = TRUE]

\* One execution of the body of the innermost `if` of matchOrders for the bid
\* at position bi of the best bid level and the ask at position aj of the best
\* ask level.  b is the sweep's state.
ExecuteTrade(b, bi, aj, clock) ==
    LET bidOrder == b.bids[1].orders[bi]
        askOrder == b.asks[1].orders[aj]
        tradeQuantity == Min(bidOrder.quantity, askOrder.quantity)
        trade == [tradeId |-> b.nextTradeId,
                  buyOrderId |-> bidOrder.idorder,
                  sellOrderId |-> askOrder.idorder,
                  marketIdentificationCode |-> bidOrder.marketIdentificationCode,
                  tradingCurrency |-> bidOrder.tradingCurrency,
                  price |-> askOrder.price,
                  quantity |-> tradeQuantity,
                  timestamp |-> clock]
    IN  [b EXCEPT !.nextTradeId = @ + 1,
                  !.trades = Append(@, trade),
                  !.stats = notifyMatch(@, trade),
                  !.bids[1].orders[bi].quantity = @ - tradeQuantity,
                  !.asks[1].orders[aj].quantity = @ - tradeQuantity,
                  !.tradesExecuted = @ + 1,
                  !.matchFound = TRUE]

\* for (auto& askOrder : lowestAskIt->second), from position aj on.
RECURSIVE ScanAsks(_, _, _, _)
ScanAsks(b, bi, aj, clock) ==
    IF aj > Len(b.asks[1].orders) THEN b
    ELSE IF Compatible(b.bids[1].orders[bi], b.asks[1].orders[aj])
         THEN LET t == ExecuteTrade(b, bi, aj, clock)
              IN  IF \/ t.bids[1].orders[bi].quantity = 0
                     \/ t.asks[1].orders[aj].quantity = 0
                  THEN t
                  ELSE ScanAsks(t, bi, aj + 1, clock)
         ELSE ScanAsks(b, bi, aj + 1, clock)

\* A variant of ScanBids that goes through the best bid level from its tail.
RECURSIVE ScanBidsFromTail(_, _, _)
ScanBidsFromTail(b, bi, clock) ==
    IF bi > Len(b.bids[1].orders) THEN b
    ELSE LET t == ScanAsks(b, Len(b.bids[1].orders) - bi + 1, 1, clock)
         IN  IF t.matchFound THEN t ELSE ScanBidsFromTail(t, bi + 1, clock)

\* for (auto& bidOrder : highestBidIt->second), from position bi on.
RECURSIVE ScanBids(_, _, _)
ScanBids(b, bi, clock) ==
    IF bi > Len(b.bids[1].orders) THEN b
    ELSE LET t == ScanAsks(b, bi, 1, clock)
         IN  IF t.matchFound THEN t ELSE ScanBids(t, bi + 1, clock)

\* A variant of RemoveExecuted that requeues a partly filled order at the tail.
RemoveExecutedRequeue(levels) ==
    LET emptied == [i \in 1..Len(levels) |->
                      Level(levels[i].price,
                            SelectSeq(levels[i].orders,
                                      LAMBDA o : o.quantity = o.originalqty)
                            \o SelectSeq(levels[i].orders,
                                         LAMBDA o : o.quantity # 0
                                                    /\ o.quantity # o.originalqty))]
    IN  SelectSeq(emptied, LAMBDA l : l.orders # <<>>)

\* The erase/remove_if of cleanupExecutedOrders on one side, empty levels erased.
RemoveExecuted(levels) ==
    LET emptied == [i \in 1..Len(levels) |->
                      Level(levels[i].price,
                            SelectSeq(levels[i].orders, LAMBDA o : o.quantity # 0))]
    IN  SelectSeq(emptied, LAMBDA l : l.orders # <<>>)

\* A variant of cleanupExecutedOrders that removes nothing.
cleanupExecutedNothing(b) ==
    b

\* A variant of cleanupExecutedOrders that cleans the bid side only.
cleanupExecutedBids(b) ==
    [b EXCEPT !.bids = RemoveExecuted(@)]

cleanupExecutedOrders(b) ==
    [b EXCEPT !.bids = RemoveExecuted(@), !.asks = RemoveExecuted(@)]

\* A variant of SweepHalts without the test of the two best prices.
SweepHaltsNoPriceTest(b) ==
    \/ b.bids = <<>>
    \/ b.asks = <<>>

\* The loop test of matchOrders and the first break: a side is empty, or the
\* best bid is below the best ask.
SweepHalts(b) ==
    \/ b.bids = <<>>
    \/ b.asks = <<>>
    \/ b.bids[1].price < b.asks[1].price

\* One pass of the body of the while loop past the first break: the two for
\* loops over the best levels, then cleanupExecutedOrders.
SweepPass(b, clock) ==
    cleanupExecutedOrders(ScanBids([b EXCEPT !.matchFound = FALSE], 1, clock))

\* The while loop of matchOrders.
RECURSIVE MatchLoop(_, _)
MatchLoop(b, clock) ==
    IF SweepHalts(b) THEN b
    ELSE LET pass == SweepPass(b, clock)
         IN  IF ~pass.matchFound THEN pass
             ELSE MatchLoop(pass, clock)

\* OrderBook::matchOrders on the book (bids, asks, trades, nextTradeId) and the
\* statistics it notifies; the field tradesExecuted of the result is the value
\* returned.
matchOrders(book, clock) ==
    MatchLoop([bids |-> book.bids, asks |-> book.asks, trades |-> book.trades,
               nextTradeId |-> book.nextTradeId, stats |-> book.stats,
               tradesExecuted |-> 0, matchFound |-> FALSE], clock)

\* A variant of RemoveExpired that keeps an order expiring at this very hour.
RemoveExpiredStrict(levels, clock) ==
    [i \in 1..Len(levels) |->
        [price |-> levels[i].price,
         orders |-> SelectSeq(levels[i].orders,
                      LAMBDA o : ~(o.timeinforce = "GTD" /\ o.expirationDate < clock))]]

\* A variant of RemoveExpired that erases one expired order of a level per call.
RemoveExpiredOnePerLevel(levels, clock) ==
    [i \in 1..Len(levels) |->
        Level(levels[i].price,
              LET q == levels[i].orders
                  hit == {j \in 1..Len(q) :
                            q[j].timeinforce = "GTD" /\ q[j].expirationDate <= clock}
              IN  IF hit = {} THEN q
                  ELSE LET first == CHOOSE j \in hit : \A k \in hit : j <= k
                       IN  SubSeq(q, 1, first - 1) \o SubSeq(q, first + 1, Len(q)))]

\* The erase/remove_if of checkGTDOrders on one side: levels stay, also empty.
RemoveExpired(levels, clock) ==
    [i \in 1..Len(levels) |->
        Level(levels[i].price,
              SelectSeq(levels[i].orders,
                        LAMBDA o : ~(o.timeinforce = "GTD" /\ o.expirationDate <= clock)))]

RECURSIVE Flatten(_)
Flatten(levels) ==
    IF levels = <<>> THEN <<>>
    ELSE Head(levels).orders \o Flatten(Tail(levels))

OrdersOf(levels) ==
    {Flatten(levels)[i] : i \in 1..Len(Flatten(levels))}

\* MatchingEngine::checkGTDOrders on both sides of the book.
checkGTDOrders(book, clock) ==
    [book EXCEPT !.bids = RemoveExpired(@, clock), !.asks = RemoveExpired(@, clock)]

-----------------------------------------------------------------------------
(* The engine *)

ZeroStats(clock) ==
    [dailyTradeCount |-> 0, dailyVolume |-> 0, lastReset |-> clock,
     totalTradeCount |-> 0, totalVolume |-> 0,
     matchingAttempts |-> 0, successfulMatches |-> 0]

\* A variant of resetDailyStats that zeroes the running totals as well.
resetAllStats(st, clock) ==
    [st EXCEPT !.dailyTradeCount = 0, !.dailyVolume = 0,
               !.totalTradeCount = 0, !.totalVolume = 0,
               !.matchingAttempts = 0, !.successfulMatches = 0,
               !.lastReset = clock]

resetDailyStats(st, clock) ==
    [st EXCEPT !.dailyTradeCount = 0, !.dailyVolume = 0,
               !.matchingAttempts = 0, !.successfulMatches = 0,
               !.lastReset = clock]

\* The state of the book and of the statistics, as the operators above take it.
BookState ==
    [bids |-> bidOrders, asks |-> askOrders, trades |-> trades,
     nextTradeId |-> nextTradeId, stats |-> stats]

\* A variant of SubmitEffect that inserts and sweeps whatever validation said.
SubmitEffectUnchecked(book, order, ok, clock) ==
    LET m == matchOrders(addOrder(book, order), clock)
    IN  [m EXCEPT !.stats = IF m.tradesExecuted > 0 /\ m.trades # <<>>
                            THEN updateStats(@, m.trades[Len(m.trades)])
                            ELSE @]

\* What addAndValidateOrder does to the book and the statistics for an order
\* whose validation gave ok: nothing when it failed; otherwise addOrder, then
\* matchOrders, then updateStats on getLastTrade() when the sweep matched.
SubmitEffect(book, order, ok, clock) ==
    IF ~ok
    THEN [bids |-> book.bids, asks |-> book.asks, trades |-> book.trades,
          nextTradeId |-> book.nextTradeId, stats |-> book.stats,
          tradesExecuted |-> 0, matchFound |-> FALSE]
    ELSE LET m == matchOrders(addOrder(book, order), clock)
         IN  [m EXCEPT !.stats = IF m.tradesExecuted > 0 /\ m.trades # <<>>
                                 THEN updateStats(@, m.trades[Len(m.trades)])
                                 ELSE @]

-----------------------------------------------------------------------------
(* Inputs *)

\* The registry the program is started with: two instruments of one market,
\* the second with a larger lot and a finer tick.
StartupInstruments ==
    <<Instrument(1, "XPAR", "EUR", 100, 2), Instrument(2, "XPAR", "EUR", 200, 3)>>

\* The instruments offered to addInstrument: keys that differ in one component
\* each, and two configurations per key.
RegistryInputs ==
    {Instrument(id, mic, ccy, cfg[1], cfg[2]) :
        id \in {1, 2}, mic \in {"XPAR", "XLON"}, ccy \in {"EUR", "USD"},
        cfg \in {<<100, 2>>, <<200, 3>>}}

NoOrder ==
    [idorder |-> 0]

\* The locals of updateStats outside a call.
NoUpdate ==
    [tradeValue |-> 0, current |-> 0]

\* DAY limit orders as the callers build them: the id comes from the caller's
\* counter, the priority stamp is taken when the Order is constructed.
DayOrders(id, insts, qtys) ==
    {Order(id, inst, "XPAR", "EUR", side, price, qty, "DAY", 0, id) :
        inst \in insts, side \in {"BID", "ASK"},
        price \in {148000, 155000}, qty \in qtys}

\* Orders off the grid above: unknown key components, prices and quantities
\* at and off the tick and the lot of each instrument.
ProbeOrders(id) ==
    {Order(id, 3, "XPAR", "EUR", "BID", 148000, 200, "DAY", 0, id),
     Order(id, 1, "XLON", "EUR", "BID", 148000, 200, "DAY", 0, id),
     Order(id, 1, "XPAR", "USD", "ASK", 148000, 200, "DAY", 0, id),
     Order(id, 1, "XPAR", "EUR", "BID", 150005, 200, "DAY", 0, id),
     Order(id, 2, "XPAR", "EUR", "BID", 150005, 200, "DAY", 0, id),
     Order(id, 1, "XPAR", "EUR", "ASK", 0, 200, "DAY", 0, id),
     Order(id, 1, "XPAR", "EUR", "ASK", 148000, 150, "DAY", 0, id),
     Order(id, 1, "XPAR", "EUR", "ASK", 148000, 100, "DAY", 0, id),
     Order(id, 2, "XPAR", "EUR", "ASK", 148000, 100, "DAY", 0, id),
     Order(id, 1, "XPAR", "EUR", "BID", 148000, 0, "DAY", 0, id)}

BookOrders(id) ==
    DayOrders(id, {1, 2}, {200, 300}) \cup ProbeOrders(id)

\* The orders of main's "order" command: DAY orders that cross each other and
\* GTD orders that do not, the GTD ones expiring one hour after construction.
EngineOrders(id, clock) ==
    {Order(id, 1, "XPAR", "EUR", "BID", 155000, 200, "DAY", 0, id),
     Order(id, 1, "XPAR", "EUR", "ASK", 148000, 200, "DAY", 0, id),
     Order(id, 1, "XPAR", "EUR", "BID", 148000, 200, "GTD", clock + 1, id),
     Order(id, 1, "XPAR", "EUR", "ASK", 155000, 200, "GTD", clock + 1, id)}

ConcOrders(id) ==
    DayOrders(id, {1, 2}, {200})

-----------------------------------------------------------------------------
(* Initial states *)

\* The book, the engine and the callers after construction.
InitRest ==
    /\ bidOrders = <<>>
    /\ askOrders = <<>>
    /\ trades = <<>>
    /\ nextTradeId = 1
    /\ isRunning = FALSE
    /\ stats = ZeroStats(0)
    /\ workerPc = "none"
    /\ workerNow = 0
    /\ lastStatsReset = 0
    /\ lastGTDCheck = 0
    /\ ctl = "idle"
    /\ pc = [s \in Submitters |-> "idle"]
    /\ cur = [s \in Submitters |-> NoOrder]
    /\ matches = [s \in Submitters |-> 0]
    /\ result = [s \in Submitters |-> "none"]
    /\ local = [s \in Submitters |-> NoUpdate]
    /\ now = 0
    /\ nextOrderId = 1
    /\ accepted = <<>>
    /\ expired = {}
    /\ regLog = <<>>
    /\ bookDisplayMutex = "free"
    /\ engineDisplayMutex = "free"

\* After main's addInstrument calls.
Init ==
    /\ instruments = RegisterAll(EmptyRegistry, StartupInstruments).instruments
    /\ instrumentSet = RegisterAll(EmptyRegistry, StartupInstruments).instrumentSet
    /\ InitRest

\* Before main's addInstrument calls.
InitRegistry ==
    /\ instruments = <<>>
    /\ instrumentSet = {}
    /\ InitRest

-----------------------------------------------------------------------------
(* InstrumentManager::addInstrument *)

AddInstrument(instrument) ==
    /\ Len(regLog) < MaxRegs
    /\ LET r == addInstrument([instrumentSet |-> instrumentSet,
                               instruments |-> instruments, ok |-> TRUE],
                              instrument)
       IN  /\ instrumentSet' = r.instrumentSet
           /\ instruments' = r.instruments
           /\ regLog' = Append(regLog, [instrument |-> instrument, ok |-> r.ok])
    /\ UNCHANGED <<bookVars, isRunning, stats, workerVars, ctl, submitVars, now,
                   nextOrderId, accepted, expired, mutexVars>>

-----------------------------------------------------------------------------
(* MatchingEngine::addAndValidateOrder, called by one thread at a time *)

AddAndValidateOrder(s, order) ==
    /\ nextOrderId <= MaxOrders
    /\ pc[s] = "idle"
    /\ LET ok == FindAndValidate(instruments, 1, order)
           e == SubmitEffect(BookState, order, ok, now)
       IN  /\ bidOrders' = e.bids
           /\ askOrders' = e.asks
           /\ trades' = e.trades
           /\ nextTradeId' = e.nextTradeId
           /\ stats' = e.stats
           /\ matches' = [matches EXCEPT ![s] = e.tradesExecuted]
           /\ result' = [result EXCEPT ![s] = IF ok THEN "true" ELSE "false"]
           /\ accepted' = IF ok THEN Append(accepted, order) ELSE accepted
    /\ cur' = [cur EXCEPT ![s] = order]
    /\ nextOrderId' = nextOrderId + 1
    /\ UNCHANGED <<local, registryVars, isRunning, workerVars, ctl, pc, now, expired, regLog, mutexVars>>

-----------------------------------------------------------------------------
(* MatchingEngine::addAndValidateOrder, called by several threads: the steps *)
(* between which another thread can run *)

\* The caller constructs the Order and enters addAndValidateOrder.
SubmitCall(s, order) ==
    /\ nextOrderId <= MaxOrders
    /\ pc[s] = "idle"
    /\ pc' = [pc EXCEPT ![s] = "called"]
    /\ cur' = [cur EXCEPT ![s] = order]
    /\ nextOrderId' = nextOrderId + 1
    /\ UNCHANGED <<local, registryVars, bookVars, isRunning, stats, workerVars, ctl,
                   matches, result, now, accepted, expired, regLog, mutexVars>>

\* The validation loop and, when it passes, orderBook.addOrder (no lock taken).
SubmitInsert(s) ==
    /\ pc[s] = "called"
    /\ IF FindAndValidate(instruments, 1, cur[s])
       THEN /\ bidOrders' = addOrder(BookState, cur[s]).bids
            /\ askOrders' = addOrder(BookState, cur[s]).asks
            /\ accepted' = Append(accepted, cur[s])
            /\ pc' = [pc EXCEPT ![s] = "inserted"]
            /\ UNCHANGED result
       ELSE /\ result' = [result EXCEPT ![s] = "false"]
            /\ pc' = [pc EXCEPT ![s] = "idle"]
            /\ UNCHANGED <<bidOrders, askOrders, accepted>>
    /\ UNCHANGED <<local, registryVars, trades, nextTradeId, isRunning, stats, workerVars,
                   ctl, cur, matches, now, nextOrderId, expired, regLog, mutexVars>>

\* orderBook.matchOrders(), under the book's mutex.
SubmitMatch(s) ==
    /\ pc[s] = "inserted"
    /\ LET m == matchOrders(BookState, now)
       IN  /\ bidOrders' = m.bids
           /\ askOrders' = m.asks
           /\ trades' = m.trades
           /\ nextTradeId' = m.nextTradeId
           /\ stats' = m.stats
           /\ matches' = [matches EXCEPT ![s] = m.tradesExecuted]
    /\ pc' = [pc EXCEPT ![s] = "matched"]
    /\ UNCHANGED <<local, registryVars, isRunning, workerVars, ctl, cur, result, now,
                   nextOrderId, accepted, expired, regLog, mutexVars>>

\* if (matches > 0) updateStats(*getLastTrade()); return true.
SubmitReturn(s) ==
    /\ pc[s] = "matched"
    /\ stats' = IF matches[s] > 0 /\ trades # <<>>
                THEN updateStats(stats, trades[Len(trades)])
                ELSE stats
    /\ result' = [result EXCEPT ![s] = "true"]
    /\ pc' = [pc EXCEPT ![s] = "idle"]
    /\ UNCHANGED <<local, registryVars, bookVars, isRunning, workerVars, ctl, cur, matches,
                   now, nextOrderId, accepted, expired, regLog, mutexVars>>

-----------------------------------------------------------------------------
(* MatchingEngine::start and the worker thread, MatchingEngine::run *)

Start ==
    /\ ctl = "idle"
    /\ ~isRunning
    /\ isRunning' = TRUE
    /\ stats' = ZeroStats(now)
    /\ workerPc' = "init"
    /\ UNCHANGED <<registryVars, bookVars, workerNow, lastStatsReset, lastGTDCheck,
                   ctl, submitVars, now, nextOrderId, accepted, expired, regLog, mutexVars>>

\* The locals of run() are initialised from the clock.
WorkerInit ==
    /\ workerPc = "init"
    /\ lastGTDCheck' = now
    /\ lastStatsReset' = now
    /\ workerPc' = "loop"
    /\ UNCHANGED <<registryVars, bookVars, isRunning, stats, workerNow, ctl,
                   submitVars, now, nextOrderId, accepted, expired, regLog, mutexVars>>

\* A variant of WorkerTop that does not see the running flag cleared.
WorkerTopDeaf ==
    /\ workerPc = "loop"
    /\ stats.matchingAttempts < MaxAttempts
    /\ workerNow' = now
    /\ workerPc' = "match"
    /\ UNCHANGED <<registryVars, bookVars, isRunning, stats, lastStatsReset,
                   lastGTDCheck, ctl, submitVars, now, nextOrderId, accepted,
                   expired, regLog, mutexVars>>

\* while (isRunning): read the clock, reset the daily statistics when due.
WorkerTop ==
    /\ workerPc = "loop"
    /\ isRunning => stats.matchingAttempts < MaxAttempts
    /\ IF isRunning
       THEN /\ workerNow' = now
            /\ IF now - lastStatsReset > DailyResetHours
               THEN /\ stats' = resetDailyStats(stats, now)
                    /\ lastStatsReset' = now
               ELSE UNCHANGED <<stats, lastStatsReset>>
            /\ workerPc' = "match"
       ELSE /\ workerPc' = "done"
            /\ UNCHANGED <<workerNow, stats, lastStatsReset>>
    /\ UNCHANGED <<registryVars, bookVars, isRunning, lastGTDCheck, ctl, submitVars,
                   now, nextOrderId, accepted, expired, regLog, mutexVars>>

\* A variant of WorkerMatch that counts an attempt for every trade of the sweep.
WorkerMatchPerTrade ==
    /\ workerPc = "match"
    /\ LET m == matchOrders(BookState, now)
       IN  /\ bidOrders' = m.bids
           /\ askOrders' = m.asks
           /\ trades' = m.trades
           /\ nextTradeId' = m.nextTradeId
           /\ stats' = [m.stats EXCEPT !.successfulMatches = @ + m.tradesExecuted,
                                       !.matchingAttempts = @ + m.tradesExecuted]
    /\ workerPc' = "gtd"
    /\ UNCHANGED <<registryVars, isRunning, workerNow, lastStatsReset, lastGTDCheck,
                   ctl, submitVars, now, nextOrderId, accepted, expired, regLog, mutexVars>>

\* stats.matchingAttempts++; orderBook.matchOrders(); successfulMatches += matches.
WorkerMatch ==
    /\ workerPc = "match"
    /\ LET m == matchOrders([BookState EXCEPT !.stats.matchingAttempts = @ + 1], now)
       IN  /\ bidOrders' = m.bids
           /\ askOrders' = m.asks
           /\ trades' = m.trades
           /\ nextTradeId' = m.nextTradeId
           /\ stats' = [m.stats EXCEPT !.successfulMatches = @ + m.tradesExecuted]
    /\ workerPc' = "gtd"
    /\ UNCHANGED <<registryVars, isRunning, workerNow, lastStatsReset, lastGTDCheck,
                   ctl, submitVars, now, nextOrderId, accepted, expired, regLog, mutexVars>>

\* if (now - lastGTDCheck > hours(1)) { checkGTDOrders(); lastGTDCheck = now; }
\* checkGTDOrders reads the clock itself.
WorkerGTD ==
    /\ workerPc = "gtd"
    /\ IF workerNow - lastGTDCheck > GTDCheckHours
       THEN /\ bidOrders' = checkGTDOrders(BookState, now).bids
            /\ askOrders' = checkGTDOrders(BookState, now).asks
            /\ expired' = expired
                   \cup (OrdersOf(bidOrders) \ OrdersOf(bidOrders'))
                   \cup (OrdersOf(askOrders) \ OrdersOf(askOrders'))
            /\ lastGTDCheck' = workerNow
       ELSE UNCHANGED <<bidOrders, askOrders, expired, lastGTDCheck>>
    /\ workerPc' = "sleep"
    /\ UNCHANGED <<registryVars, trades, nextTradeId, isRunning, stats, workerNow,
                   lastStatsReset, ctl, submitVars, now, nextOrderId, accepted, regLog, mutexVars>>

\* std::this_thread::sleep_for, then back to the loop condition.
WorkerSleep ==
    /\ workerPc = "sleep"
    /\ workerPc' = "loop"
    /\ UNCHANGED <<registryVars, bookVars, isRunning, stats, workerNow,
                   lastStatsReset, lastGTDCheck, ctl, submitVars, now, nextOrderId,
                   accepted, expired, regLog, mutexVars>>

\* The clock advances by one hour.
Tick ==
    /\ now < MaxTime
    /\ now' = now + 1
    /\ UNCHANGED <<registryVars, bookVars, isRunning, stats, workerVars, ctl,
                   submitVars, nextOrderId, accepted, expired, regLog, mutexVars>>

-----------------------------------------------------------------------------
(* Specifications *)

\* One caller submitting orders to the book; no worker.
Next ==
    \E order \in BookOrders(nextOrderId) : AddAndValidateOrder(1, order)

Spec ==
    Init /\ [][Next]_vars

\* One caller, the worker thread and the clock.
NextEngine ==
    \/ \E order \in EngineOrders(nextOrderId, now) : AddAndValidateOrder(1, order)
    \/ Start
    \/ WorkerInit
    \/ WorkerTop
    \/ WorkerMatch
    \/ WorkerGTD
    \/ WorkerSleep
    \/ Tick

SpecEngine ==
    Init /\ [][NextEngine]_vars

\* Several callers whose submissions interleave.
NextConc ==
    \E s \in Submitters :
        \/ \E order \in ConcOrders(nextOrderId) : SubmitCall(s, order)
        \/ SubmitInsert(s)
        \/ SubmitMatch(s)
        \/ SubmitReturn(s)

SpecConc ==
    Init /\ [][NextConc]_vars

\* The registry being filled.
NextRegistry ==
    \E instrument \in RegistryInputs : AddInstrument(instrument)

SpecRegistry ==
    InitRegistry /\ [][NextRegistry]_vars

-----------------------------------------------------------------------------
(* Vocabulary of the properties, defined on the history and the book alone *)

\* Two orders carry the same routing triple.
SameRouting(a, b) ==
    /\ a.idinstrument = b.idinstrument
    /\ a.marketIdentificationCode = b.marketIdentificationCode
    /\ a.tradingCurrency = b.tradingCurrency

Resting ==
    Flatten(bidOrders) \o Flatten(askOrders)

AcceptedOrders ==
    {accepted[i] : i \in 1..Len(accepted)}

\* The order as it was when it entered the book.
AcceptedById(id) ==
    CHOOSE o \in AcceptedOrders : o.idorder = id

ExpiredIds ==
    {e.idorder : e \in expired}

\* The quantity the trades of log give to order id.
RECURSIVE TradedQty(_, _)
TradedQty(log, id) ==
    IF log = <<>> THEN 0
    ELSE (IF Head(log).buyOrderId = id \/ Head(log).sellOrderId = id
          THEN Head(log).quantity ELSE 0) + TradedQty(Tail(log), id)

TradesOf(id) ==
    {k \in 1..Len(trades) : trades[k].buyOrderId = id \/ trades[k].sellOrderId = id}

\* A resting bid and a resting ask of one routing triple whose prices cross.
CrossedPair ==
    \E b \in OrdersOf(bidOrders), a \in OrdersOf(askOrders) :
        SameRouting(b, a) /\ b.price >= a.price

-----------------------------------------------------------------------------
(* C1 *)

\* C1: after every matching sweep the book holds no compatible bid and ask
\* whose prices cross: whenever the last submission was accepted (its sweep has
\* returned), no resting bid and resting ask of the same routing triple have
\* bid price >= ask price.
C1_NoCrossedBookAfterSweep ==
    result[1] = "true" => ~CrossedPair

-----------------------------------------------------------------------------
(* C2 *)

\* C2: quantity is conserved.  For every order that entered the book and did
\* not expire, originalqty = remaining + the quantities of the trades naming
\* it, where remaining is the quantity of its one resting copy, or 0 when it
\* has left the book; and every resting order is one that entered the book.
C2_QuantityConserved ==
    /\ \A i \in 1..Len(Resting) :
          /\ Resting[i].idorder \in {o.idorder : o \in AcceptedOrders}
          /\ Resting[i].quantity > 0
          /\ \A j \in 1..Len(Resting) :
                Resting[j].idorder = Resting[i].idorder => j = i
    /\ \A o \in AcceptedOrders :
          o.idorder \notin ExpiredIds =>
              LET copies == {i \in 1..Len(Resting) : Resting[i].idorder = o.idorder}
                  remaining == IF copies = {} THEN 0
                               ELSE Resting[CHOOSE i \in copies : TRUE].quantity
              IN  o.originalqty = remaining + TradedQty(trades, o.idorder)

\* An order that traded twice and left the book, beside one that rests partly
\* filled.
C2_Witness ==
    /\ \E o \in AcceptedOrders :
          /\ Cardinality(TradesOf(o.idorder)) = 2
          /\ \A i \in 1..Len(Resting) : Resting[i].idorder # o.idorder
    /\ \E i \in 1..Len(Resting) :
          0 < Resting[i].quantity /\ Resting[i].quantity < Resting[i].originalqty

-----------------------------------------------------------------------------
(* C3 *)

\* The best bid level and the best ask level of a book hold no two orders of
\* one routing triple.
TopIncompatible(book) ==
    /\ book.bids # <<>>
    /\ book.asks # <<>>
    /\ \A i \in 1..Len(book.bids[1].orders), j \in 1..Len(book.asks[1].orders) :
          ~SameRouting(book.bids[1].orders[i], book.asks[1].orders[j])

TradesPairCompatibleOrders ==
    \A k \in 1..Len(trades) :
        SameRouting(AcceptedById(trades[k].buyOrderId),
                    AcceptedById(trades[k].sellOrderId))

\* An accepted submission whose sweep starts on a book with incompatible best
\* levels adds no trade and leaves every order as the insert placed it.
IncompatibleTopSweep ==
    accepted' # accepted =>
        LET pre == addOrder(BookState, cur'[1])
        IN  TopIncompatible(pre) =>
                /\ trades' = trades
                /\ bidOrders' = pre.bids
                /\ askOrders' = pre.asks

\* C3: every trade pairs a bid and an ask with the same instrument id, market
\* and currency; and a sweep on a book whose best levels hold only incompatible
\* orders produces no trade and leaves them resting.
C3_OnlyCompatibleOrdersTrade ==
    []TradesPairCompatibleOrders /\ [][IncompatibleTopSweep]_vars

\* A bid and an ask of different instruments rest at crossing prices after an
\* accepted submission, beside a trade between two orders of one instrument.
C3_Witness ==
    /\ result[1] = "true"
    /\ TopIncompatible(BookState)
    /\ bidOrders[1].price >= askOrders[1].price
    /\ trades # <<>>

-----------------------------------------------------------------------------
(* C4 *)

\* What was left of the order id just before trade number k of the log.
RemainingBefore(id, k) ==
    AcceptedById(id).originalqty - TradedQty(SubSeq(trades, 1, k - 1), id)

TradeQuantityAndPrice ==
    \A k \in 1..Len(trades) :
        /\ trades[k].quantity = Min(RemainingBefore(trades[k].buyOrderId, k),
                                    RemainingBefore(trades[k].sellOrderId, k))
        /\ trades[k].quantity > 0
        /\ trades[k].price = AcceptedById(trades[k].sellOrderId).price

\* BID 155 x 300 then ASK 148 x 200 on one instrument: one trade of 200 at 148,
\* the bid rests with 100, the ask is gone.
BasicCross ==
    (/\ Len(accepted) = 2
     /\ nextOrderId = 3
     /\ SameRouting(accepted[1], accepted[2])
     /\ accepted[1].ordertype = "BID" /\ accepted[1].price = 155000
     /\ accepted[1].originalqty = 300
     /\ accepted[2].ordertype = "ASK" /\ accepted[2].price = 148000
     /\ accepted[2].originalqty = 200)
    => /\ Len(trades) = 1
       /\ trades[1].quantity = 200
       /\ trades[1].price = 148000
       /\ askOrders = <<>>
       /\ Len(Flatten(bidOrders)) = 1
       /\ Flatten(bidOrders)[1].idorder = accepted[1].idorder
       /\ Flatten(bidOrders)[1].quantity = 100

\* C4: a trade's quantity is the minimum of the two orders' remaining
\* quantities taken just before the trade, and its price is the ask order's
\* limit price, never the bid's; BID 155 x 300 against ASK 148 x 200
\* gives one trade of 200 at 148, leaves the bid with 100 and removes the ask.
C4_TradeQuantityAndPrice ==
    TradeQuantityAndPrice /\ BasicCross

\* The basic cross has happened: the trade is priced below the bid's limit.
C4_Witness ==
    /\ Len(accepted) = 2
    /\ accepted[1].ordertype = "BID" /\ accepted[1].price = 155000
    /\ accepted[1].originalqty = 300
    /\ accepted[2].ordertype = "ASK" /\ accepted[2].price = 148000
    /\ accepted[2].originalqty = 200
    /\ Len(trades) = 1
    /\ trades[1].price < accepted[1].price
    /\ Len(Flatten(bidOrders)) = 1
    /\ Flatten(bidOrders)[1].quantity = 100

-----------------------------------------------------------------------------
(* C6 *)

\* The order's price and quantity are valid for the instrument: positive and
\* on the tick grid of pricedecimal decimals, positive and a multiple of the lot.
ValidFor(order, instrument) ==
    /\ order.price > 0
    /\ (order.price * Pow10(instrument.pricedecimal)) % PriceUnit = 0
    /\ order.quantity > 0
    /\ order.quantity % instrument.lotsize = 0

RegisteredAndValid(order) ==
    \E i \in 1..Len(instruments) :
        SameRouting(order, instruments[i]) /\ ValidFor(order, instruments[i])

\* C6: a submission returns true exactly when an instrument with the order's
\* routing triple is registered and the order's price and quantity are valid
\* for it; an unknown triple or an invalid order returns false.
C6_SubmitTrueIffValid ==
    /\ result[1] = "true" => RegisteredAndValid(cur[1])
    /\ result[1] = "false" => ~RegisteredAndValid(cur[1])

\* A rejected order of a registered instrument, that another instrument's lot
\* and tick would have let in, after an accepted one.
C6_Witness ==
    /\ result[1] = "false"
    /\ \E i \in 1..Len(instruments) : SameRouting(cur[1], instruments[i])
    /\ \E i \in 1..Len(instruments) : ValidFor(cur[1], instruments[i])
    /\ accepted # <<>>

-----------------------------------------------------------------------------
(* C7 *)

\* A submission that returns false changes nothing.
RejectedSubmitChangesNothing ==
    (nextOrderId' # nextOrderId /\ result'[1] = "false") =>
        UNCHANGED <<bidOrders, askOrders, trades, nextTradeId, stats, accepted>>

\* C7: a rejected submission leaves the order book, the trade log and the
\* statistics exactly as they were.
C7_RejectedSubmitChangesNothing ==
    [][RejectedSubmitChangesNothing]_vars

\* A rejection on a book that holds orders and a log that holds trades.
C7_Witness ==
    /\ result[1] = "false"
    /\ Resting # <<>>
    /\ trades # <<>>
    /\ stats.totalTradeCount > 0

-----------------------------------------------------------------------------
(* C5 *)

LevelsInPriceTimeOrder(side, levels) ==
    /\ \A i \in 1..Len(levels), j \in 1..Len(levels) :
          i < j => IF side = "BID" THEN levels[i].price > levels[j].price
                   ELSE levels[i].price < levels[j].price
    /\ \A i \in 1..Len(levels) :
          \A m \in 1..Len(levels[i].orders), n \in 1..Len(levels[i].orders) :
              m < n => levels[i].orders[m].priority <= levels[i].orders[n].priority

\* C5: at a quiescent point (no submission in progress) each side is in
\* price-time order: bids by descending price, asks by ascending price, and
\* the orders of one price level by ascending priority stamp.
C5_PriceTimePriority ==
    (\A s \in Submitters : pc[s] = "idle") =>
        /\ LevelsInPriceTimeOrder("BID", bidOrders)
        /\ LevelsInPriceTimeOrder("ASK", askOrders)

-----------------------------------------------------------------------------
(* C8 *)

\* The position at which order id entered the book.
InsertedAt(id) ==
    CHOOSE i \in 1..Len(accepted) : accepted[i].idorder = id

\* No resting copy of order o faces an order of the opposite side that entered
\* the book before o, rests still, has the same routing triple and a crossing
\* price.
MatchedAgainstAll(o) ==
    \A b \in OrdersOf(bidOrders), a \in OrdersOf(askOrders) :
        (\/ b.idorder = o.idorder /\ InsertedAt(a.idorder) < InsertedAt(o.idorder)
         \/ a.idorder = o.idorder /\ InsertedAt(b.idorder) < InsertedAt(o.idorder))
            => ~(SameRouting(b, a) /\ b.price >= a.price)

SubmitReturnsMatched ==
    \A s \in Submitters :
        (pc[s] = "matched" /\ pc'[s] = "idle" /\ result'[s] = "true") =>
            MatchedAgainstAll(cur[s])'

\* C8: insert and sweep of a submission are one unit with respect to the other
\* submitters: when a submission returns true, its order has been matched
\* against every compatible resting order of the opposite side whose price
\* crosses its own.
C8_SubmitAtomicWithSweep ==
    [][SubmitReturnsMatched]_vars

-----------------------------------------------------------------------------
(* C9 *)

\* The instruments of the calls of log that were the first with their key, in
\* call order.
RECURSIVE FirstPerKey(_, _)
FirstPerKey(log, seen) ==
    IF log = <<>> THEN <<>>
    ELSE IF \E x \in seen : SameRouting(x, Head(log).instrument)
         THEN FirstPerKey(Tail(log), seen)
         ELSE <<Head(log).instrument>>
                  \o FirstPerKey(Tail(log), seen \cup {Head(log).instrument})

\* C9: no two registered instruments share (instrument id, market, currency);
\* a registration of a key already present returns false and changes nothing,
\* so the first registration of a key wins; the registry iterates in insertion
\* order.
C9_RegistryUniqueFirstWins ==
    /\ \A i \in 1..Len(instruments), j \in 1..Len(instruments) :
          SameRouting(instruments[i], instruments[j]) => i = j
    /\ instruments = FirstPerKey(regLog, {})
    /\ \A k \in 1..Len(regLog) :
          regLog[k].ok = ~(\E j \in 1..(k - 1) :
                              SameRouting(regLog[j].instrument, regLog[k].instrument))
    /\ instrumentSet = {Key(instruments[i]) : i \in 1..Len(instruments)}

\* A second registration of a key with another lot and tick was refused, and a
\* third with the same instrument id on another market was taken.
C9_Witness ==
    /\ Len(regLog) = 3
    /\ SameRouting(regLog[1].instrument, regLog[2].instrument)
    /\ regLog[1].instrument # regLog[2].instrument
    /\ ~regLog[2].ok
    /\ regLog[3].instrument.idinstrument = regLog[1].instrument.idinstrument
    /\ regLog[3].ok
    /\ instruments = <<regLog[1].instrument, regLog[3].instrument>>

-----------------------------------------------------------------------------
(* C10 *)

Expirable(o) ==
    o.timeinforce = "GTD" /\ o.expirationDate <= now

\* The worker's step from "gtd" in which checkGTDOrders ran.
ExpirySweepStep ==
    workerPc = "gtd" /\ workerPc' = "sleep" /\ lastGTDCheck' # lastGTDCheck

ExpirySweepEffect ==
    ExpirySweepStep =>
        /\ \A o \in OrdersOf(bidOrders') \cup OrdersOf(askOrders') : ~Expirable(o)
        /\ Flatten(bidOrders') = SelectSeq(Flatten(bidOrders), LAMBDA o : ~Expirable(o))
        /\ Flatten(askOrders') = SelectSeq(Flatten(askOrders), LAMBDA o : ~Expirable(o))

\* C10: after an expiry sweep run at time now, no GTD order with expiration
\* <= now is on either side, and every DAY order and every GTD order with
\* expiration > now that was in the book is still there, in its place, with
\* its remaining quantity unchanged.
C10_ExpiryRemovesOnlyExpiredGTD ==
    [][ExpirySweepEffect]_vars

\* An expiry sweep has just removed a GTD order and left a DAY order and a
\* GTD order that expires later.
C10_Witness ==
    /\ workerPc = "sleep"
    /\ lastGTDCheck = workerNow
    /\ expired # {}
    /\ \E i \in 1..Len(Resting) : Resting[i].timeinforce = "DAY"
    /\ \E i \in 1..Len(Resting) :
          Resting[i].timeinforce = "GTD" /\ Resting[i].expirationDate > now

-----------------------------------------------------------------------------
(* MatchingEngine::start and MatchingEngine::stop, called on an engine in any *)
(* state by one controlling thread *)

\* A variant of StartBody that does not test the running flag.
StartBodyUnguarded ==
    /\ ctl = "starting"
    /\ isRunning' = TRUE
    /\ stats' = ZeroStats(now)
    /\ workerPc' = "init"
    /\ ctl' = "idle"
    /\ UNCHANGED <<registryVars, bookVars, workerNow, lastStatsReset, lastGTDCheck,
                   submitVars, now, nextOrderId, accepted, expired, regLog, mutexVars>>

\* The controlling thread enters start().
StartCall ==
    /\ ctl = "idle"
    /\ ctl' = "starting"
    /\ UNCHANGED <<registryVars, bookVars, isRunning, stats, workerVars, submitVars,
                   now, nextOrderId, accepted, expired, regLog, mutexVars>>

\* if (!isRunning) { isRunning = true; reset the counters; spawn run(); }
StartBody ==
    /\ ctl = "starting"
    /\ IF ~isRunning
       THEN /\ isRunning' = TRUE
            /\ stats' = ZeroStats(now)
            /\ workerPc' = "init"
       ELSE UNCHANGED <<isRunning, stats, workerPc>>
    /\ ctl' = "idle"
    /\ UNCHANGED <<registryVars, bookVars, workerNow, lastStatsReset, lastGTDCheck,
                   submitVars, now, nextOrderId, accepted, expired, regLog, mutexVars>>

\* The controlling thread enters stop().
StopCall ==
    /\ ctl = "idle"
    /\ ctl' = "stopping"
    /\ UNCHANGED <<registryVars, bookVars, isRunning, stats, workerVars, submitVars,
                   now, nextOrderId, accepted, expired, regLog, mutexVars>>

\* if (isRunning) { isRunning = false; ... join ... }
StopBody ==
    /\ ctl = "stopping"
    /\ IF isRunning
       THEN /\ isRunning' = FALSE
            /\ ctl' = "joining"
       ELSE /\ ctl' = "idle"
            /\ UNCHANGED isRunning
    /\ UNCHANGED <<registryVars, bookVars, stats, workerVars, submitVars, now,
                   nextOrderId, accepted, expired, regLog, mutexVars>>

\* A variant of StopJoin that returns without waiting for run() to return.
StopJoinDetached ==
    /\ ctl = "joining"
    /\ ctl' = "idle"
    /\ UNCHANGED <<registryVars, bookVars, isRunning, stats, workerVars, submitVars, now,
                   nextOrderId, accepted, expired, regLog, mutexVars>>

\* engineThread.join() returns once run() has returned.
StopJoin ==
    /\ ctl = "joining"
    /\ workerPc = "done"
    /\ workerPc' = "none"
    /\ ctl' = "idle"
    /\ UNCHANGED <<registryVars, bookVars, isRunning, stats, workerNow,
                   lastStatsReset, lastGTDCheck, submitVars, now, nextOrderId,
                   accepted, expired, regLog, mutexVars>>

\* One caller of start() and stop(), the worker and one submitter.
NextLifecycle ==
    \/ StartCall
    \/ StartBody
    \/ StopCall
    \/ StopBody
    \/ StopJoin
    \/ WorkerInit
    \/ WorkerTop
    \/ WorkerMatch
    \/ WorkerGTD
    \/ WorkerSleep
    \/ \E order \in EngineOrders(nextOrderId, now) : AddAndValidateOrder(1, order)

SpecLifecycle ==
    Init /\ [][NextLifecycle]_vars

\* The same, with threads that are scheduled: the worker keeps running and a
\* call of stop() that was entered goes on.
SpecLifecycleLive ==
    /\ Init
    /\ [][NextLifecycle]_vars
    /\ WF_vars(WorkerInit)
    /\ WF_vars(WorkerTop)
    /\ WF_vars(WorkerMatch)
    /\ WF_vars(WorkerGTD)
    /\ WF_vars(WorkerSleep)
    /\ WF_vars(StopBody)
    /\ WF_vars(StopJoin)

-----------------------------------------------------------------------------
(* C11 *)

\* What a redundant start() or stop() must leave alone: the flag, the
\* statistics, the worker and the book.
LifecycleUntouched ==
    UNCHANGED <<isRunning, stats, workerPc, workerNow, lastStatsReset, lastGTDCheck,
                bidOrders, askOrders, trades, nextTradeId>>

LifecycleStep ==
    /\ (ctl = "starting" /\ ctl' # ctl /\ isRunning) => LifecycleUntouched
    /\ (ctl = "stopping" /\ ctl' # ctl /\ ~isRunning) =>
           (ctl' = "idle" /\ LifecycleUntouched)
    /\ (ctl = "starting" /\ ctl' # ctl /\ ~isRunning) => isRunning'
    /\ (ctl = "stopping" /\ ctl' # ctl /\ isRunning) => ~isRunning'
    /\ isRunning' # isRunning =>
           \/ ~isRunning /\ ctl = "starting"
           \/ isRunning /\ ctl = "stopping"

\* C11: start() on a running engine and stop() on a stopped engine change
\* nothing (running flag, statistics, worker, book; no reset, no second
\* worker), and the running flag changes only from stopped to running in
\* start() and from running to stopped in stop().
C11_LifecycleIdempotent ==
    [][LifecycleStep]_vars

\* start() has been entered on a running engine whose worker is inside an
\* iteration and whose statistics are not zero.
C11_Witness ==
    /\ ctl = "starting"
    /\ isRunning
    /\ workerPc = "gtd"
    /\ stats.matchingAttempts > 0
    /\ stats.totalTradeCount > 0

-----------------------------------------------------------------------------
(* C12 *)

\* The worker leaves run() only from its loop test, and a loop test that finds
\* the flag cleared starts no further iteration.
WorkerStopsAtLoopTest ==
    /\ (workerPc' = "done" /\ workerPc # "done") => workerPc = "loop"
    /\ (~isRunning /\ workerPc = "loop" /\ workerPc' # workerPc) => workerPc' = "done"

\* C12: stop() on a running engine clears the flag; the worker sees it at its
\* next loop test, after at most the rest of the current iteration and its
\* sleep, and terminates; then stop() returns.  The worker never stops in the
\* middle of a sweep.
C12_StopTerminatesWorker ==
    /\ (ctl = "joining") ~> (ctl = "idle" /\ workerPc = "none")
    /\ [](ctl = "joining" => ~isRunning)
    /\ [][WorkerStopsAtLoopTest]_vars

\* stop() has returned on an engine whose worker had made matching attempts.
C12_Witness ==
    /\ ctl = "idle"
    /\ ~isRunning
    /\ workerPc = "none"
    /\ stats.matchingAttempts > 0
    /\ trades # <<>>

-----------------------------------------------------------------------------
(* MatchingEngine::updateStats as called at the end of addAndValidateOrder,  *)
(* outside the book's lock: the steps between which another thread can run   *)

\* Orders of one instrument that fill each other in parts of unequal value.
StatsOrders(id) ==
    {Order(id, 1, "XPAR", "EUR", "BID", 155000, 300, "DAY", 0, id),
     Order(id, 1, "XPAR", "EUR", "ASK", 148000, 100, "DAY", 0, id),
     Order(id, 1, "XPAR", "EUR", "ASK", 155000, 200, "DAY", 0, id)}

\* if (matches > 0) is false, or getLastTrade() is null: return true.
SubmitSkipStats(s) ==
    /\ pc[s] = "matched"
    /\ matches[s] = 0 \/ trades = <<>>
    /\ result' = [result EXCEPT ![s] = "true"]
    /\ pc' = [pc EXCEPT ![s] = "idle"]
    /\ UNCHANGED <<registryVars, bookVars, isRunning, stats, workerVars, ctl, cur,
                   matches, local, now, nextOrderId, accepted, expired, regLog, mutexVars>>

\* updateStats(*getLastTrade()): tradeValue, dailyTradeCount.fetch_add(1),
\* currentDailyVolume = dailyVolume.load().
SubmitStatsLoad(s) ==
    /\ pc[s] = "matched"
    /\ matches[s] > 0 /\ trades # <<>>
    /\ stats' = [stats EXCEPT !.dailyTradeCount = @ + 1]
    /\ local' = [local EXCEPT ![s] =
                    [tradeValue |-> trades[Len(trades)].quantity
                                        * trades[Len(trades)].price,
                     current |-> stats.dailyVolume]]
    /\ pc' = [pc EXCEPT ![s] = "daily"]
    /\ UNCHANGED <<registryVars, bookVars, isRunning, workerVars, ctl, cur, matches,
                   result, now, nextOrderId, accepted, expired, regLog, mutexVars>>

\* dailyVolume.store(currentDailyVolume + tradeValue), totalTradeCount.fetch_add(1),
\* currentTotalVolume = totalVolume.load().
SubmitStatsDaily(s) ==
    /\ pc[s] = "daily"
    /\ stats' = [stats EXCEPT !.dailyVolume = local[s].current + local[s].tradeValue,
                              !.totalTradeCount = @ + 1]
    /\ local' = [local EXCEPT ![s].current = stats.totalVolume]
    /\ pc' = [pc EXCEPT ![s] = "total"]
    /\ UNCHANGED <<registryVars, bookVars, isRunning, workerVars, ctl, cur, matches,
                   result, now, nextOrderId, accepted, expired, regLog, mutexVars>>

\* totalVolume.store(currentTotalVolume + tradeValue),
\* successfulMatches.fetch_add(1); return true.
SubmitStatsTotal(s) ==
    /\ pc[s] = "total"
    /\ stats' = [stats EXCEPT !.totalVolume = local[s].current + local[s].tradeValue,
                              !.successfulMatches = @ + 1]
    /\ local' = [local EXCEPT ![s] = NoUpdate]
    /\ result' = [result EXCEPT ![s] = "true"]
    /\ pc' = [pc EXCEPT ![s] = "idle"]
    /\ UNCHANGED <<registryVars, bookVars, isRunning, workerVars, ctl, cur, matches,
                   now, nextOrderId, accepted, expired, regLog, mutexVars>>

\* Several callers whose submissions and statistics updates interleave.
NextStats ==
    \E s \in Submitters :
        \/ \E order \in StatsOrders(nextOrderId) : SubmitCall(s, order)
        \/ SubmitInsert(s)
        \/ SubmitMatch(s)
        \/ SubmitSkipStats(s)
        \/ SubmitStatsLoad(s)
        \/ SubmitStatsDaily(s)
        \/ SubmitStatsTotal(s)

SpecStats ==
    Init /\ [][NextStats]_vars

-----------------------------------------------------------------------------
(* C13 *)

CountersDoNotDecrease ==
    /\ stats'.totalTradeCount >= stats.totalTradeCount
    /\ stats'.totalVolume >= stats.totalVolume
    /\ stats'.matchingAttempts >= stats.matchingAttempts
    /\ stats'.successfulMatches >= stats.successfulMatches

\* C13: between explicit resets (here there is none: no start(), no daily
\* reset) no step of a submitter lowers total_trade_count, total_notional,
\* matching_attempts or successful_matches.
C13_StatisticsMonotonic ==
    [][CountersDoNotDecrease]_vars

-----------------------------------------------------------------------------
(* C14 *)

RECURSIVE Notional(_)
Notional(log) ==
    IF log = <<>> THEN 0
    ELSE Head(log).quantity * Head(log).price + Notional(Tail(log))

\* C14: every trade reaches the statistics exactly once: with the counters
\* zeroed before the first submission, total_trade_count is the number of
\* trades in the log and total_notional is the sum of quantity x price over
\* them.
C14_TradesCountedOnce ==
    /\ stats.totalTradeCount = Len(trades)
    /\ stats.totalVolume = Notional(trades)

-----------------------------------------------------------------------------
(* C15 *)

\* A store to a volume adds the trade value to the value the counter holds at
\* that moment.
VolumeUpdatesAtomic ==
    \A s \in Submitters :
        /\ (pc[s] = "daily" /\ pc'[s] = "total") =>
               stats'.dailyVolume = stats.dailyVolume + local[s].tradeValue
        /\ (pc[s] = "total" /\ pc'[s] = "idle") =>
               stats'.totalVolume = stats.totalVolume + local[s].tradeValue

\* C15: no update of a statistics counter is lost: each update is an atomic
\* read-modify-write, so the counter after it is the counter before it plus the
\* increment, under any interleaving of concurrent submitters.
C15_NoLostUpdate ==
    [][VolumeUpdatesAtomic]_vars

-----------------------------------------------------------------------------
(* OrderBook::addOrder and OrderBook::matchOrders as operations that take    *)
(* time: addOrder holds no lock, matchOrders holds the book's displayMutex   *)

RaceOrders(id) ==
    DayOrders(id, {1}, {200})

\* The submitters inside addOrder, and those inside addOrder on one side.
Inserting ==
    {t \in Submitters : pc[t] \in {"inserting", "racing"}}

InsertingOn(side) ==
    {t \in Inserting : cur[t].ordertype = side}

\* The validation loop; when it passes, the caller enters orderBook.addOrder.
\* Two callers inside addOrder on the same side map write it unsynchronised.
InsertBegin(s) ==
    /\ pc[s] = "called"
    /\ IF FindAndValidate(instruments, 1, cur[s])
       THEN /\ accepted' = Append(accepted, cur[s])
            /\ pc' = [t \in Submitters |->
                        IF InsertingOn(cur[s].ordertype) = {} THEN
                            IF t = s THEN "inserting" ELSE pc[t]
                        ELSE IF t = s \/ t \in InsertingOn(cur[s].ordertype)
                             THEN "racing" ELSE pc[t]]
            /\ UNCHANGED result
       ELSE /\ result' = [result EXCEPT ![s] = "false"]
            /\ pc' = [pc EXCEPT ![s] = "idle"]
            /\ UNCHANGED accepted
    /\ UNCHANGED <<registryVars, bookVars, isRunning, stats, workerVars, ctl, cur,
                   matches, local, now, nextOrderId, expired, regLog, mutexVars>>

\* addOrder returns.  The push_back of a caller that was alone in the side map
\* has taken place; that of a caller that raced another has taken place or
\* has been overwritten by the other.
InsertEnd(s) ==
    /\ pc[s] \in {"inserting", "racing"}
    /\ \/ /\ bidOrders' = addOrder(BookState, cur[s]).bids
          /\ askOrders' = addOrder(BookState, cur[s]).asks
       \/ /\ pc[s] = "racing"
          /\ UNCHANGED <<bidOrders, askOrders>>
    /\ pc' = [pc EXCEPT ![s] = "inserted"]
    /\ UNCHANGED <<registryVars, trades, nextTradeId, isRunning, stats, workerVars,
                   ctl, cur, matches, result, local, now, nextOrderId, accepted,
                   expired, regLog, mutexVars>>

\* matchOrders: std::lock_guard<std::mutex> lock(displayMutex).
SweepBegin(s) ==
    /\ pc[s] = "inserted"
    /\ \A t \in Submitters : pc[t] # "sweeping"
    /\ pc' = [pc EXCEPT ![s] = "sweeping"]
    /\ UNCHANGED <<registryVars, bookVars, isRunning, stats, workerVars, ctl, cur,
                   matches, result, local, now, nextOrderId, accepted, expired,
                   regLog, mutexVars>>

\* matchOrders returns and releases the lock.
SweepEnd(s) ==
    /\ pc[s] = "sweeping"
    /\ LET m == matchOrders(BookState, now)
       IN  /\ bidOrders' = m.bids
           /\ askOrders' = m.asks
           /\ trades' = m.trades
           /\ nextTradeId' = m.nextTradeId
           /\ stats' = m.stats
           /\ matches' = [matches EXCEPT ![s] = m.tradesExecuted]
    /\ pc' = [pc EXCEPT ![s] = "matched"]
    /\ UNCHANGED <<registryVars, isRunning, workerVars, ctl, cur, result, local, now,
                   nextOrderId, accepted, expired, regLog, mutexVars>>

NextRace ==
    \E s \in Submitters :
        \/ \E order \in RaceOrders(nextOrderId) : SubmitCall(s, order)
        \/ InsertBegin(s)
        \/ InsertEnd(s)
        \/ SweepBegin(s)
        \/ SweepEnd(s)
        \/ SubmitReturn(s)

SpecRace ==
    Init /\ [][NextRace]_vars

-----------------------------------------------------------------------------
(* C16 *)

\* The threads with an insert or a sweep in progress on the book.
OnTheBook ==
    {t \in Submitters : pc[t] \in {"inserting", "racing", "sweeping"}}

\* C16: one exclusive lock covers every insert, every matching sweep and every
\* expiry sweep: at no time are two of these operations in progress on the
\* book.
C16_BookLockExclusive ==
    Cardinality(OnTheBook) <= 1

-----------------------------------------------------------------------------
(* C20 *)

\* The accepted order rests exactly once with what its trades left of it, or
\* rests nowhere because it was filled or expired.
AccountedFor(o) ==
    LET copies == {i \in 1..Len(Resting) : Resting[i].idorder = o.idorder}
    IN  \/ /\ Cardinality(copies) = 1
           /\ \A i \in copies :
                 /\ Resting[i].quantity > 0
                 /\ Resting[i].quantity = o.originalqty - TradedQty(trades, o.idorder)
        \/ /\ copies = {}
           /\ \/ TradedQty(trades, o.idorder) = o.originalqty
              \/ o.idorder \in ExpiredIds

\* C20: with concurrent submitters, at a quiescent point every order whose
\* submission returned true is accounted for: resting once with original
\* minus traded quantity, or removed because filled or expired; none is lost
\* or duplicated.
C20_ConcurrentSubmittersTolerated ==
    (\A s \in Submitters : pc[s] = "idle") =>
        \A o \in AcceptedOrders : AccountedFor(o)

-----------------------------------------------------------------------------
(* C17 *)

NoTrade ==
    [tradeId |-> 0, buyOrderId |-> 0, sellOrderId |-> 0,
     marketIdentificationCode |-> "", tradingCurrency |-> "",
     price |-> 0, quantity |-> 0, timestamp |-> 0]

\* return trades.empty() ? nullptr : &trades.back();
getLastTrade(log) ==
    IF Len(log) = 0 THEN NoTrade ELSE log[Len(log)]

\* The k-th trade of the log has id k.
TradeIdsArePositions ==
    \A k \in 1..Len(trades) : trades[k].tradeId = k

\* The last trade is the final entry of the log, absent on an empty log.
LastTradeIsFinalEntry ==
    /\ trades = <<>> => getLastTrade(trades) = NoTrade
    /\ trades # <<>> => getLastTrade(trades) = trades[Len(trades)]

\* Every entry of the log is still there, unmodified, after the step.
LogAppendOnly ==
    /\ Len(trades') >= Len(trades)
    /\ \A k \in 1..Len(trades) : trades'[k] = trades[k]

\* C17: the trade log is append-only and the k-th trade has id k (from 1, no
\* gap, no duplicate); no step modifies or removes an entry; the last trade
\* is the final entry, or absent when the log is empty.
C17_TradeLogAppendOnly ==
    /\ [](TradeIdsArePositions /\ LastTradeIsFinalEntry)
    /\ [][LogAppendOnly]_vars

\* Two sweeps have each appended to the log.
C17_Witness ==
    /\ Len(trades) >= 2
    /\ trades[1].sellOrderId # trades[2].sellOrderId
    /\ getLastTrade(trades).tradeId = 2

-----------------------------------------------------------------------------
(* Concurrent callers of addAndValidateOrder whose sweeps empty a level *)

SweepOrders(id) ==
    {Order(id, 1, "XPAR", "EUR", "BID", 155000, 200, "DAY", 0, id),
     Order(id, 1, "XPAR", "EUR", "ASK", 148000, 100, "DAY", 0, id)}

NextSweep ==
    \E s \in Submitters :
        \/ \E order \in SweepOrders(nextOrderId) : SubmitCall(s, order)
        \/ SubmitInsert(s)
        \/ SubmitMatch(s)
        \/ SubmitReturn(s)

SpecSweep ==
    Init /\ [][NextSweep]_vars

-----------------------------------------------------------------------------
(* C18 *)

\* Caller s's sweep takes place in this step.
SweepBy(s) ==
    pc[s] = "inserted" /\ pc'[s] = "matched"

\* The value the sweep returned is the number of trades the step appended,
\* and the appended trades carry the next ids in the order of their making.
ReturnsAppended(s) ==
    /\ Len(trades') = Len(trades) + matches'[s]
    /\ \A k \in 1..Len(trades) : trades'[k] = trades[k]
    /\ \A k \in (Len(trades) + 1)..Len(trades') : trades'[k].tradeId = k

SweepReturnsAppended ==
    /\ \A s \in Submitters : SweepBy(s) => ReturnsAppended(s)
    /\ (\A s \in Submitters : ~SweepBy(s)) => trades' = trades

\* C18: a sweep returns exactly the number of trades it appended to the log
\* during that call, appended in the order produced, also when other threads
\* sweep or submit concurrently; nothing else appends to the log.
C18_SweepReturnsAppended ==
    [][SweepReturnsAppended]_vars

\* A sweep has returned two while another caller is between its insert and
\* its own sweep.
C18_Witness ==
    \E s, t \in Submitters :
        /\ s # t
        /\ pc[s] = "matched"
        /\ matches[s] = 2
        /\ Len(trades) = 2
        /\ pc[t] = "inserted"

-----------------------------------------------------------------------------
(* The worker across a change of trading day *)

\* More than DailyResetHours go by between two readings of the clock.
DayPasses ==
    /\ now <= MaxTime
    /\ now' = now + DailyResetHours + 1
    /\ UNCHANGED <<registryVars, bookVars, isRunning, stats, workerVars, ctl,
                   submitVars, nextOrderId, accepted, expired, regLog, mutexVars>>

NextDaily ==
    \/ \E order \in EngineOrders(nextOrderId, now) : AddAndValidateOrder(1, order)
    \/ Start
    \/ WorkerInit
    \/ WorkerTop
    \/ WorkerMatch
    \/ WorkerGTD
    \/ WorkerSleep
    \/ Tick
    \/ DayPasses

SpecDaily ==
    Init /\ [][NextDaily]_vars

-----------------------------------------------------------------------------
(* C19 *)

\* The worker performs the daily reset in this step.
DailyResetStep ==
    workerPc = "loop" /\ lastStatsReset' # lastStatsReset

NoDayOrderRests ==
    \A i \in 1..Len(Resting) : Resting[i].timeinforce # "DAY"

\* C19: DAY orders expire at the end of the trading day: when the worker
\* performs the daily reset every resting DAY order is removed, so no DAY
\* order submitted before the reset is in the book after it.
C19_DayOrdersRemovedAtReset ==
    [][DailyResetStep => NoDayOrderRests']_vars

-----------------------------------------------------------------------------
(* One caller of addAndValidateOrder, its insert and every pass of its sweep *)
(* taken as separate steps                                                   *)

\* Orders of both instruments at two prices and two sizes.
StepOrders(id) ==
    DayOrders(id, {1, 2}, {200, 400})

\* The sweep's state at the top of the while loop: tradesExecuted is 0 on
\* entry to matchOrders and the running count afterwards.
SweepState(s) ==
    [bids |-> bidOrders, asks |-> askOrders, trades |-> trades,
     nextTradeId |-> nextTradeId, stats |-> stats,
     tradesExecuted |-> IF pc[s] = "inserted" THEN 0 ELSE matches[s],
     matchFound |-> FALSE]

\* One evaluation of the loop test of matchOrders and, when it passes, one
\* pass of the loop body; the call returns when the loop is left.
SweepIteration(s) ==
    /\ pc[s] \in {"inserted", "sweeping"}
    /\ IF SweepHalts(SweepState(s))
       THEN /\ matches' = [matches EXCEPT ![s] = SweepState(s).tradesExecuted]
            /\ pc' = [pc EXCEPT ![s] = "matched"]
            /\ UNCHANGED <<bookVars, stats>>
       ELSE LET pass == SweepPass(SweepState(s), now)
            IN  /\ bidOrders' = pass.bids
                /\ askOrders' = pass.asks
                /\ trades' = pass.trades
                /\ nextTradeId' = pass.nextTradeId
                /\ stats' = pass.stats
                /\ matches' = [matches EXCEPT ![s] = pass.tradesExecuted]
                /\ pc' = [pc EXCEPT ![s] =
                            IF pass.matchFound THEN "sweeping" ELSE "matched"]
    /\ UNCHANGED <<registryVars, isRunning, workerVars, ctl, cur, result, local, now,
                   nextOrderId, accepted, expired, regLog, mutexVars>>

NextSteps ==
    \/ \E order \in StepOrders(nextOrderId) : SubmitCall(1, order)
    \/ SubmitInsert(1)
    \/ SweepIteration(1)
    \/ SubmitReturn(1)

SpecSteps ==
    Init /\ [][NextSteps]_vars

-----------------------------------------------------------------------------
(* C21 *)

\* The queue at price p on one side, empty when the side has no such level.
QueueAt(levels, p) ==
    IF \E i \in 1..Len(levels) : levels[i].price = p
    THEN levels[CHOOSE i \in 1..Len(levels) : levels[i].price = p].orders
    ELSE <<>>

PricesOf(levels) ==
    {levels[i].price : i \in 1..Len(levels)}

\* Caller s's insert takes place in this step.
InsertBy(s) ==
    pc[s] = "called" /\ pc'[s] = "inserted"

\* The step put order o at the tail of its queue on the side that goes from
\* own to ownNext and left every other queue of that side as it was.
AppendedAtTail(o, own, ownNext) ==
    /\ QueueAt(ownNext, o.price) = Append(QueueAt(own, o.price), o)
    /\ \A p \in (PricesOf(own) \cup PricesOf(ownNext)) \ {o.price} :
          QueueAt(ownNext, p) = QueueAt(own, p)

InsertOnlyAppends ==
    \A s \in Submitters :
        InsertBy(s) =>
            /\ cur[s].ordertype = "BID" =>
                  /\ AppendedAtTail(cur[s], bidOrders, bidOrders')
                  /\ askOrders' = askOrders
            /\ cur[s].ordertype = "ASK" =>
                  /\ AppendedAtTail(cur[s], askOrders, askOrders')
                  /\ bidOrders' = bidOrders
            /\ trades' = trades
            /\ nextTradeId' = nextTradeId
            /\ stats' = stats

\* C21: the insert appends the order at the tail of the queue for its price
\* on its own side and does nothing else: the opposite side, the other price
\* levels, the orders already queued and their remaining quantities, the
\* trade log and the statistics are unchanged, and no matching occurs even if
\* the new order crosses the book.
C21_InsertOnlyAppends ==
    [][InsertOnlyAppends]_vars

\* A bid has just been queued behind an earlier bid of its price, crossing a
\* resting ask it is compatible with, and no trade was made.
C21_Witness ==
    /\ pc[1] = "inserted"
    /\ cur[1].ordertype = "BID"
    /\ bidOrders # <<>>
    /\ askOrders # <<>>
    /\ Len(bidOrders[1].orders) = 2
    /\ bidOrders[1].orders[2] = cur[1]
    /\ bidOrders[1].price >= askOrders[1].price
    /\ SameRouting(cur[1], askOrders[1].orders[1])
    /\ trades = <<>>

-----------------------------------------------------------------------------
(* One caller, the worker and the clock, with orders that fill in part and   *)
(* orders that expire at one price                                           *)

QueueOrders(id, clock) ==
    {Order(id, 1, "XPAR", "EUR", "BID", 148000, 300, "DAY", 0, id),
     Order(id, 1, "XPAR", "EUR", "BID", 148000, 200, "GTD", clock + 1, id),
     Order(id, 1, "XPAR", "EUR", "ASK", 148000, 100, "DAY", 0, id)}

NextQueue ==
    \/ \E order \in QueueOrders(nextOrderId, now) : AddAndValidateOrder(1, order)
    \/ Start
    \/ WorkerInit
    \/ WorkerTop
    \/ WorkerMatch
    \/ WorkerGTD
    \/ WorkerSleep
    \/ Tick

SpecQueue ==
    Init /\ [][NextQueue]_vars

-----------------------------------------------------------------------------
(* C22 *)

\* Order a is queued ahead of order b in one price level of the side.
Ahead(levels, a, b) ==
    \E l \in 1..Len(levels) :
        \E i, j \in 1..Len(levels[l].orders) :
            /\ i < j
            /\ levels[l].orders[i].idorder = a
            /\ levels[l].orders[j].idorder = b

IdsOf(levels) ==
    {o.idorder : o \in OrdersOf(levels)}

\* Two orders that stay in the side keep their relative order, and an order
\* that was not in the side is ahead of none that was.
PositionsKept(levels, levelsNext) ==
    /\ \A a, b \in IdsOf(levels) \cap IdsOf(levelsNext) :
          Ahead(levels, a, b) => Ahead(levelsNext, a, b)
    /\ \A a \in IdsOf(levelsNext), b \in IdsOf(levels) :
          Ahead(levelsNext, a, b) => a \in IdsOf(levels)

\* C22: queue positions are stable: two orders resting in the same price
\* level never change their relative order under an insert, a sweep or an
\* expiry sweep, and a partially filled order keeps its position, ahead of
\* later arrivals at its price.
C22_QueuePositionsStable ==
    [][PositionsKept(bidOrders, bidOrders') /\ PositionsKept(askOrders, askOrders')]_vars

\* A partially filled bid heads its queue with a later bid queued behind it,
\* after a sweep of the worker.
C22_Witness ==
    /\ bidOrders # <<>>
    /\ Len(bidOrders[1].orders) = 2
    /\ bidOrders[1].orders[1].quantity < bidOrders[1].orders[1].originalqty
    /\ bidOrders[1].orders[1].idorder < bidOrders[1].orders[2].idorder
    /\ workerPc = "gtd"

-----------------------------------------------------------------------------
(* C23 *)

\* The trade t pairs the front-most bid of queue B that has a compatible ask
\* in queue A with the front-most ask of A compatible with that bid.
FrontMostPair(t, B, A) ==
    \E i \in 1..Len(B) :
        \E j \in 1..Len(A) :
            /\ B[i].idorder = t.buyOrderId
            /\ A[j].idorder = t.sellOrderId
            /\ SameRouting(B[i], A[j])
            /\ \A k \in 1..(i - 1) : \A m \in 1..Len(A) : ~SameRouting(B[k], A[m])
            /\ \A m \in 1..(j - 1) : ~SameRouting(B[i], A[m])

\* A step makes at most one trade, by the front-most pair of the best levels.
FifoPairSelection ==
    /\ Len(trades') <= Len(trades) + 1
    /\ Len(trades') = Len(trades) + 1 =>
          /\ bidOrders # <<>>
          /\ askOrders # <<>>
          /\ FrontMostPair(trades'[Len(trades')], bidOrders[1].orders,
                           askOrders[1].orders)

\* C23: pair selection in a sweep step is first in, first out: among the
\* orders of the best bid level and the best ask level the pair traded is the
\* front-most bid that has a compatible ask in the best ask level, with the
\* front-most ask compatible with it; no later order of those levels trades
\* while an earlier one with a compatible counterparty there is unfilled.
C23_FifoPairSelection ==
    [][FifoPairSelection]_vars

\* The last pass traded a bid queued behind an earlier bid of its level that
\* had no compatible ask and still rests there.
C23_Witness ==
    /\ pc[1] = "sweeping"
    /\ trades # <<>>
    /\ bidOrders # <<>>
    /\ bidOrders[1].price = AcceptedById(trades[Len(trades)].buyOrderId).price
    /\ bidOrders[1].orders[1].idorder < trades[Len(trades)].buyOrderId

-----------------------------------------------------------------------------
(* C24 *)

\* The orders resting on either side.
RestingOrders ==
    OrdersOf(bidOrders) \cup OrdersOf(askOrders)

RemainingWithinOriginal ==
    \A o \in RestingOrders : 0 <= o.quantity /\ o.quantity <= o.originalqty

\* No order is left with nothing remaining once a sweep has returned.
NoFilledOrderAfterSweep ==
    (\E s \in Submitters : pc[s] = "matched") =>
        \A o \in RestingOrders : o.quantity # 0

\* No order that stays in the book has more remaining after the step.
RemainingNeverIncreases ==
    \A o \in RestingOrders :
        \A n \in RestingOrders' :
            n.idorder = o.idorder => n.quantity <= o.quantity

\* C24: every resting order has 0 <= remaining <= original at all times, its
\* remaining quantity never increases, and after each sweep returns no order
\* with remaining 0 is left on either side.
C24_RemainingQuantityBounds ==
    /\ [](RemainingWithinOriginal /\ NoFilledOrderAfterSweep)
    /\ [][RemainingNeverIncreases]_vars

\* A sweep has returned after filling one order in full, which is gone, and
\* another in part, which rests with less than its original quantity.
C24_Witness ==
    /\ pc[1] = "matched"
    /\ matches[1] > 0
    /\ \E o \in RestingOrders :
          /\ 0 < o.quantity
          /\ o.quantity < o.originalqty
          /\ \E k \in 1..Len(trades) :
                /\ trades[k].buyOrderId = o.idorder
                /\ trades[k].sellOrderId \notin {r.idorder : r \in RestingOrders}

-----------------------------------------------------------------------------
(* C25 *)

NoEmptyLevel(levels) ==
    \A l \in 1..Len(levels) : levels[l].orders # <<>>

\* C25: whenever no book operation is in progress every price level present
\* in the bid map or the ask map holds at least one order: levels emptied by
\* fills in a sweep or by the removal of expired GTD orders are removed before
\* the operation completes, so the first key of each map is the price of a
\* resting order.
C25_NoEmptyPriceLevel ==
    NoEmptyLevel(bidOrders) /\ NoEmptyLevel(askOrders)

-----------------------------------------------------------------------------
(* One caller whose sweep, once begun, goes on *)

\* Orders that stop a sweep at each of its exits and orders that take it
\* through two passes.
TermOrders(id) ==
    {Order(id, 1, "XPAR", "EUR", "BID", 155000, 400, "DAY", 0, id),
     Order(id, 1, "XPAR", "EUR", "BID", 148000, 200, "DAY", 0, id),
     Order(id, 2, "XPAR", "EUR", "BID", 155000, 200, "DAY", 0, id),
     Order(id, 1, "XPAR", "EUR", "ASK", 148000, 200, "DAY", 0, id),
     Order(id, 1, "XPAR", "EUR", "ASK", 155000, 200, "DAY", 0, id),
     Order(id, 2, "XPAR", "EUR", "ASK", 148000, 200, "DAY", 0, id)}

NextTerm ==
    \/ \E order \in TermOrders(nextOrderId) : SubmitCall(1, order)
    \/ SubmitInsert(1)
    \/ SweepIteration(1)
    \/ SubmitReturn(1)

\* The thread inside matchOrders is running: its next pass is taken.
SpecTermLive ==
    Init /\ [][NextTerm]_vars /\ WF_vars(SweepIteration(1))

-----------------------------------------------------------------------------
(* C26 *)

\* The trade t brought order o to zero and o is gone after the step.
FilledAndRemoved(t, o) ==
    /\ o.idorder \in {t.buyOrderId, t.sellOrderId}
    /\ o.quantity = t.quantity
    /\ \A n \in RestingOrders' : n.idorder # o.idorder

\* A pass after which the loop goes on made one trade that filled an order,
\* now removed; the test or pass after which the sweep returns made none.
PassStopsOrConsumes ==
    \A s \in Submitters :
        /\ pc[s] \in {"inserted", "sweeping"} /\ pc'[s] = "sweeping" =>
              /\ Len(trades') = Len(trades) + 1
              /\ \E o \in RestingOrders : FilledAndRemoved(trades'[Len(trades')], o)
              /\ Cardinality(RestingOrders') < Cardinality(RestingOrders)
        /\ pc[s] \in {"inserted", "sweeping"} /\ pc'[s] = "matched" =>
              /\ trades' = trades
              /\ matches'[s] <= Len(accepted)

\* C26: every matching sweep terminates: each iteration of its loop either
\* stops (a side is empty, the top of the book is not crossed, no compatible
\* pair at the top levels) or makes one trade that brings an order to zero,
\* which the cleanup removes, so the iterations are bounded by the number of
\* resting orders.
C26_SweepTerminates ==
    /\ (pc[1] \in {"inserted", "sweeping"}) ~> (pc[1] = "matched")
    /\ [][PassStopsOrConsumes]_vars

\* A sweep has returned after two passes that each made a trade.
C26_Witness ==
    /\ pc[1] = "matched"
    /\ matches[1] = 2
    /\ Len(trades) = 2

-----------------------------------------------------------------------------
(* The worker across a change of trading day, beside a caller whose insert   *)
(* and sweep are separate steps                                              *)

NextReset ==
    \/ \E order \in SweepOrders(nextOrderId) : SubmitCall(1, order)
    \/ SubmitInsert(1)
    \/ SubmitMatch(1)
    \/ SubmitReturn(1)
    \/ Start
    \/ WorkerInit
    \/ WorkerTop
    \/ WorkerMatch
    \/ WorkerGTD
    \/ WorkerSleep
    \/ DayPasses

SpecReset ==
    Init /\ [][NextReset]_vars

-----------------------------------------------------------------------------
(* C27 *)

\* The worker's sweep takes place in this step.
BackgroundSweep ==
    workerPc = "match" /\ workerPc' = "gtd"

\* The statistics are reset in this step, by start() or by the daily reset.
StatsResetStep ==
    \/ workerPc = "none" /\ workerPc' = "init"
    \/ DailyResetStep

AttemptsCountBackgroundSweeps ==
    /\ BackgroundSweep => stats'.matchingAttempts = stats.matchingAttempts + 1
    /\ StatsResetStep => stats'.matchingAttempts = 0
    /\ ~BackgroundSweep /\ ~StatsResetStep =>
          stats'.matchingAttempts = stats.matchingAttempts

\* C27: matching_attempts goes up by exactly one per sweep of the worker,
\* also when the sweep makes no trade, never per trade and never by a sweep
\* triggered by a submission: since the last reset it is the number of
\* background sweeps started.
C27_AttemptsCountBackgroundSweeps ==
    [][AttemptsCountBackgroundSweeps]_vars

\* The worker's first sweep since the reset made two trades on its own and
\* the counter is at one.
C27_Witness ==
    /\ workerPc = "gtd"
    /\ pc[1] = "inserted"
    /\ Len(trades) = 2
    /\ stats.matchingAttempts = 1

-----------------------------------------------------------------------------
(* C28 *)

\* C28: successful_matches goes up by exactly 1 per trade: since the last
\* reset it is the number of trades made, by the worker's sweeps and by the
\* sweeps that submissions trigger alike.
C28_SuccessfulMatchesCountTrades ==
    stats.successfulMatches = Len(trades)

-----------------------------------------------------------------------------
(* C29 *)

\* C29: successful_matches <= matching_attempts x (the most trades one sweep
\* can make, at most one per order); in particular successful_matches is 0
\* whenever matching_attempts is 0.
C29_SuccessesBoundedByAttempts ==
    /\ stats.successfulMatches <= stats.matchingAttempts * MaxOrders
    /\ stats.matchingAttempts = 0 => stats.successfulMatches = 0

-----------------------------------------------------------------------------
(* C30 *)

DailyResetEffect ==
    DailyResetStep =>
        /\ lastStatsReset' = now
        /\ stats'.lastReset = now
        /\ stats'.dailyTradeCount = 0
        /\ stats'.dailyVolume = 0
        /\ stats'.matchingAttempts = 0
        /\ stats'.successfulMatches = 0
        /\ stats'.totalTradeCount = stats.totalTradeCount
        /\ stats'.totalVolume = stats.totalVolume
        /\ bidOrders' = bidOrders
        /\ askOrders' = askOrders
        /\ trades' = trades
        /\ nextTradeId' = nextTradeId

\* C30: the daily reset sets the time of the last daily reset to now and
\* zeroes daily_trade_count, daily_notional, matching_attempts and
\* successful_matches; it leaves total_trade_count, total_notional, the book
\* and the trade log unchanged.
C30_DailyResetEffect ==
    [][DailyResetEffect]_vars

\* The daily reset has just been made on an engine that had traded, had swept
\* and has orders resting.
C30_Witness ==
    /\ workerPc = "match"
    /\ now > DailyResetHours
    /\ lastStatsReset = now
    /\ stats.lastReset = now
    /\ stats.dailyTradeCount = 0
    /\ stats.totalTradeCount > 0
    /\ stats.totalVolume > 0
    /\ trades # <<>>
    /\ bidOrders # <<>>

-----------------------------------------------------------------------------
(* The worker at the very hour a trading day has gone by *)

\* Exactly DailyResetHours go by between two readings of the clock.
DayElapses ==
    /\ now <= MaxTime
    /\ now' = now + DailyResetHours
    /\ UNCHANGED <<registryVars, bookVars, isRunning, stats, workerVars, ctl,
                   submitVars, nextOrderId, accepted, expired, regLog, mutexVars>>

NextDayEdge ==
    \/ \E order \in SweepOrders(nextOrderId) : AddAndValidateOrder(1, order)
    \/ Start
    \/ WorkerInit
    \/ WorkerTop
    \/ WorkerMatch
    \/ WorkerGTD
    \/ WorkerSleep
    \/ Tick
    \/ DayElapses

SpecDayEdge ==
    Init /\ [][NextDayEdge]_vars

-----------------------------------------------------------------------------
(* C31 *)

\* The worker begins an iteration in this step.
IterationBegins ==
    workerPc = "loop" /\ workerPc' = "match"

DailyResetDue ==
    now - lastStatsReset >= DailyResetHours

\* C31: the worker resets the daily statistics in an iteration if and only if
\* at least 24 h have gone by since the time recorded by the previous reset
\* or by the start: the reset fires at exactly 24 h, never earlier.
C31_DailyResetAtTwentyFourHours ==
    [][IterationBegins => (DailyResetDue <=> DailyResetStep)]_vars

\* ---------------------------------------------------------------------------
\* C32: the hourly expiry check of the worker
\* ---------------------------------------------------------------------------

\* The worker's step past the expiry check of the iteration.
ExpiryCheckPoint == workerPc = "gtd" /\ workerPc' = "sleep"

ExpiryCheckDue == workerNow - lastGTDCheck >= GTDCheckHours

\* C32: while running, the worker runs the expiry sweep in every iteration at
\* which at least one hour has elapsed since the previous expiry check, so that
\* an expired GTD order leaves the book within one check interval.
C32_ExpirySweepEveryHour ==
    [][(ExpiryCheckPoint /\ ExpiryCheckDue) => ExpirySweepStep]_vars

\* ---------------------------------------------------------------------------
\* C33: expired GTD orders and the trade log
\* ---------------------------------------------------------------------------

\* Order id, as accepted, had run out at time t.
RunOutAt(id, t) ==
    /\ AcceptedById(id).timeinforce = "GTD"
    /\ AcceptedById(id).expirationDate <= t

\* C33: no trade in the log involves a GTD order whose expiration is at or
\* before the trade's timestamp, whether the worker is running or stopped.
C33_NoTradeWithExpiredOrder ==
    \A k \in 1..Len(trades) :
        /\ ~RunOutAt(trades[k].buyOrderId, trades[k].timestamp)
        /\ ~RunOutAt(trades[k].sellOrderId, trades[k].timestamp)

-----------------------------------------------------------------------------
(* One caller, the worker and the clock, with GTD orders of which one is     *)
(* dated at the hour it is submitted                                         *)

StaleOrders(id, clock) ==
    {Order(id, 1, "XPAR", "EUR", "BID", 148000, 200, "GTD", clock, id),
     Order(id, 1, "XPAR", "EUR", "BID", 148000, 200, "GTD", clock + 1, id),
     Order(id, 1, "XPAR", "EUR", "ASK", 148000, 200, "DAY", 0, id)}

NextStale ==
    \/ \E order \in StaleOrders(nextOrderId, now) : AddAndValidateOrder(1, order)
    \/ Start
    \/ WorkerInit
    \/ WorkerTop
    \/ WorkerMatch
    \/ WorkerGTD
    \/ WorkerSleep
    \/ Tick

SpecStale == Init /\ [][NextStale]_vars

\* ---------------------------------------------------------------------------
\* C34: the expiration of a GTD order at submission
\* ---------------------------------------------------------------------------

\* A call of the submission entry returns in this step.
SubmitStep == nextOrderId' # nextOrderId

Submitted == cur'[1]

\* C34: every GTD order that enters the book through the submission entry has
\* its expiration strictly after the time of submission; a GTD order whose
\* expiration is at or before the submission time never rests in the book.
C34_GTDExpirationInFutureAtSubmit ==
    [][(SubmitStep /\ Submitted.timeinforce = "GTD" /\ Submitted.expirationDate <= now)
          => /\ accepted' = accepted
             /\ \A o \in RestingOrders' : o.idorder # Submitted.idorder]_vars

-----------------------------------------------------------------------------
(* matchOrders trade by trade: the trade is logged and notified (part_006    *)
(* lines 126-127) before the two quantities are decremented (lines 129-130), *)
(* and getLastTrade and the statistics are read without the book's mutex     *)

\* No other caller is inside matchOrders, which holds the book's mutex.
BookMutexFree(s) ==
    \A t \in Submitters \ {s} : pc[t] \notin {"sweeping", "emitted"}

\* The loop test passed and a pair was found: the trade is built, pushed on the
\* log and notified to the engine; the orders still carry their quantities.
SweepEmit(s) ==
    /\ pc[s] \in {"inserted", "sweeping"}
    /\ BookMutexFree(s)
    /\ ~SweepHalts(SweepState(s))
    /\ LET pass == SweepPass(SweepState(s), now)
       IN  /\ pass.matchFound
           /\ Len(pass.trades) = Len(trades) + 1
           /\ trades' = pass.trades
           /\ nextTradeId' = pass.nextTradeId
           /\ stats' = notifyMatch(stats, pass.trades[Len(pass.trades)])
    /\ matches' = [matches EXCEPT ![s] = SweepState(s).tradesExecuted]
    /\ pc' = [pc EXCEPT ![s] = "emitted"]
    /\ UNCHANGED <<registryVars, bidOrders, askOrders, isRunning, workerVars, ctl, cur,
                   result, local, now, nextOrderId, accepted, expired, regLog, mutexVars>>

\* bidOrder.quantity -= tradeQuantity on the order the loop holds a reference
\* to (a reference into a list of a map stays with its order).
DecrementOrder(levels, id, tradeQuantity) ==
    [i \in 1..Len(levels) |->
        Level(levels[i].price,
              [j \in 1..Len(levels[i].orders) |->
                  IF levels[i].orders[j].idorder = id
                  THEN [levels[i].orders[j] EXCEPT !.quantity = @ - tradeQuantity]
                  ELSE levels[i].orders[j]])]

\* The rest of the pass: the decrements, tradesExecuted++, the breaks (one of
\* the two orders is at zero) and cleanupExecutedOrders.
SweepSettle(s) ==
    /\ pc[s] = "emitted"
    /\ LET trade == trades[Len(trades)]
           settled == cleanupExecutedOrders(
                          [bids |-> DecrementOrder(bidOrders, trade.buyOrderId,
                                                   trade.quantity),
                           asks |-> DecrementOrder(askOrders, trade.sellOrderId,
                                                   trade.quantity)])
       IN  /\ bidOrders' = settled.bids
           /\ askOrders' = settled.asks
    /\ matches' = [matches EXCEPT ![s] = @ + 1]
    /\ pc' = [pc EXCEPT ![s] = "sweeping"]
    /\ UNCHANGED <<registryVars, trades, nextTradeId, stats, isRunning, workerVars, ctl,
                   cur, result, local, now, nextOrderId, accepted, expired, regLog, mutexVars>>

\* The loop is left: a side is empty, the prices do not cross, or the pass
\* found no pair.
SweepLeave(s) ==
    /\ pc[s] \in {"inserted", "sweeping"}
    /\ BookMutexFree(s)
    /\ IF SweepHalts(SweepState(s)) THEN TRUE
       ELSE ~SweepPass(SweepState(s), now).matchFound
    /\ SweepIteration(s)

NextVisible ==
    \E s \in Submitters :
        \/ \E order \in RaceOrders(nextOrderId) : SubmitCall(s, order)
        \/ SubmitInsert(s)
        \/ SweepEmit(s)
        \/ SweepSettle(s)
        \/ SweepLeave(s)
        \/ SubmitReturn(s)

SpecVisible ==
    Init /\ [][NextVisible]_vars

\* ---------------------------------------------------------------------------
\* C35: what a concurrent observer can see of a trade
\* ---------------------------------------------------------------------------

\* The trades of the log have been taken off the remaining quantity of o.
Settled(o) == o.quantity = o.originalqty - TradedQty(trades, o.idorder)

\* C35: a concurrent observer of the last trade, the book and the statistics
\* never sees a trade that is in the log or counted in the statistics while
\* the quantities of its two orders have not yet been decremented.
C35_TradeVisibleOnlyWhenSettled ==
    /\ \A o \in RestingOrders : Settled(o)
    /\ stats.totalTradeCount > 0 => \E o \in AcceptedOrders : o \notin RestingOrders

SettledOutsideEmit ==
    (\A s \in Submitters : pc[s] # "emitted") => C35_TradeVisibleOnlyWhenSettled

\* ---------------------------------------------------------------------------
\* C36: the expiry sweep is idempotent and touches only expired orders
\* ---------------------------------------------------------------------------

\* A second sweep at the same time leaves the book of the first as it is.
SecondSweepChangesNothing ==
    /\ checkGTDOrders(BookState', now).bids = bidOrders'
    /\ checkGTDOrders(BookState', now).asks = askOrders'

\* The orders gone were expired; the others rest as they were, with their
\* remaining quantities and in their relative order; log and statistics stay.
OnlyExpiredTouched ==
    /\ \A o \in RestingOrders \ RestingOrders' : Expirable(o)
    /\ \A o \in RestingOrders : ~Expirable(o) => o \in RestingOrders'
    /\ RestingOrders' \subseteq RestingOrders
    /\ PositionsKept(bidOrders, bidOrders') /\ PositionsKept(askOrders, askOrders')
    /\ trades' = trades
    /\ nextTradeId' = nextTradeId
    /\ stats' = stats

\* C36: the expiry sweep is idempotent and touches only expired orders:
\* running it twice at the same time gives the book that running it once
\* gives, and it leaves the trade log, the statistics, and the relative order
\* and remaining quantities of the orders that survive unchanged.
C36_ExpirySweepIdempotent ==
    [][ExpirySweepStep => (SecondSweepChangesNothing /\ OnlyExpiredTouched)]_vars

\* A sweep has taken two expired orders out of the book and left a third.
C36_Witness ==
    /\ workerPc = "sleep"
    /\ Cardinality(expired) = 2
    /\ RestingOrders # {}
    /\ \A o \in RestingOrders : o \notin expired

-----------------------------------------------------------------------------
(* MatchingEngine::start and MatchingEngine::stop called by several threads: *)
(* the reads and writes of isRunning and of engineThread between which       *)
(* another thread can run. pc[s] is the position of thread s in the call.    *)

\* if (!isRunning)
StartTest(s) ==
    /\ ctl = "idle"
    /\ pc[s] = "idle"
    /\ pc' = [pc EXCEPT ![s] = IF ~isRunning THEN "start_tested" ELSE "idle"]
    /\ UNCHANGED <<registryVars, bookVars, isRunning, stats, workerVars, ctl, cur,
                   matches, result, local, now, nextOrderId, accepted, expired, regLog, mutexVars>>

\* isRunning = true; the stores to the counters; stats.lastReset = now.
StartSet(s) ==
    /\ ctl = "idle"
    /\ pc[s] = "start_tested"
    /\ isRunning' = TRUE
    /\ stats' = ZeroStats(now)
    /\ pc' = [pc EXCEPT ![s] = "start_set"]
    /\ UNCHANGED <<registryVars, bookVars, workerVars, ctl, cur, matches, result, local,
                   now, nextOrderId, accepted, expired, regLog, mutexVars>>

\* std::thread(&MatchingEngine::run, this): a new thread runs run(), owned by
\* the temporary of the calling thread.
StartConstruct(s) ==
    /\ ctl = "idle"
    /\ pc[s] = "start_set"
    /\ pc' = [pc EXCEPT ![s] = "constructed"]
    /\ UNCHANGED <<registryVars, bookVars, isRunning, stats, workerVars, ctl, cur,
                   matches, result, local, now, nextOrderId, accepted, expired, regLog, mutexVars>>

\* engineThread = std::move(temporary), first half: std::terminate() when
\* engineThread is joinable, that is started and not joined.
StartAssignCheck(s) ==
    /\ ctl = "idle"
    /\ pc[s] = "constructed"
    /\ IF workerPc = "none"
       THEN /\ pc' = [pc EXCEPT ![s] = "assign_checked"]
            /\ UNCHANGED ctl
       ELSE /\ ctl' = "terminated"
            /\ UNCHANGED pc
    /\ UNCHANGED <<registryVars, bookVars, isRunning, stats, workerVars, cur, matches,
                   result, local, now, nextOrderId, accepted, expired, regLog, mutexVars>>

\* Second half: the handle is stored in engineThread. engineThread is a plain
\* std::thread: when another thread stored its handle since the check, that
\* handle is overwritten and its run() goes on unowned.
StartAssignStore(s) ==
    /\ ctl = "idle"
    /\ pc[s] = "assign_checked"
    /\ IF workerPc = "none"
       THEN /\ workerPc' = "init"
            /\ pc' = [pc EXCEPT ![s] = "idle"]
            /\ UNCHANGED ctl
       ELSE /\ ctl' = "raced"
            /\ UNCHANGED <<workerPc, pc>>
    /\ UNCHANGED <<registryVars, bookVars, isRunning, stats, workerNow, lastStatsReset,
                   lastGTDCheck, cur, matches, result, local, now, nextOrderId,
                   accepted, expired, regLog, mutexVars>>

\* if (isRunning)
StopTest(s) ==
    /\ ctl = "idle"
    /\ pc[s] = "idle"
    /\ pc' = [pc EXCEPT ![s] = IF isRunning THEN "stop_tested" ELSE "idle"]
    /\ UNCHANGED <<registryVars, bookVars, isRunning, stats, workerVars, ctl, cur,
                   matches, result, local, now, nextOrderId, accepted, expired, regLog, mutexVars>>

\* isRunning = false
StopClear(s) ==
    /\ ctl = "idle"
    /\ pc[s] = "stop_tested"
    /\ isRunning' = FALSE
    /\ pc' = [pc EXCEPT ![s] = "stop_cleared"]
    /\ UNCHANGED <<registryVars, bookVars, stats, workerVars, ctl, cur, matches, result,
                   local, now, nextOrderId, accepted, expired, regLog, mutexVars>>

\* if (engineThread.joinable()) engineThread.join();
StopJoinBy(s) ==
    /\ ctl = "idle"
    /\ pc[s] = "stop_cleared"
    /\ workerPc \in {"none", "done"}
    /\ workerPc' = "none"
    /\ pc' = [pc EXCEPT ![s] = "idle"]
    /\ UNCHANGED <<registryVars, bookVars, isRunning, stats, workerNow, lastStatsReset,
                   lastGTDCheck, ctl, cur, matches, result, local, now, nextOrderId,
                   accepted, expired, regLog, mutexVars>>

\* The process is alive: std::terminate has not been called and no handle of
\* a running thread was overwritten.
Alive == ctl = "idle"

NextThreads ==
    \/ \E s \in Submitters :
          \/ StartTest(s)
          \/ StartSet(s)
          \/ StartConstruct(s)
          \/ StartAssignCheck(s)
          \/ StartAssignStore(s)
          \/ StopTest(s)
          \/ StopClear(s)
          \/ StopJoinBy(s)
    \/ Alive /\ WorkerInit
    \/ Alive /\ WorkerTop
    \/ Alive /\ WorkerMatch
    \/ Alive /\ WorkerGTD
    \/ Alive /\ WorkerSleep

SpecThreads ==
    Init /\ [][NextThreads]_vars

\* ---------------------------------------------------------------------------
\* C37: one worker thread under any interleaving of start() and stop()
\* ---------------------------------------------------------------------------

\* The threads that run run(): the one engineThread owns, until run() has
\* returned, and those a caller of start() has constructed and not yet stored.
WorkerThreads ==
    (IF workerPc \in {"none", "done"} THEN 0 ELSE 1)
    + Cardinality({s \in Submitters : pc[s] \in {"constructed", "assign_checked"}})

NoCallInProgress == \A s \in Submitters : pc[s] = "idle"

\* C37: under any interleaving of start() and stop(), calls from different
\* threads included, at most one worker thread exists, and a worker thread
\* exists exactly when the running flag is set and start() has completed.
C37_AtMostOneWorker ==
    /\ WorkerThreads <= 1
    /\ NoCallInProgress => (WorkerThreads = 1 <=> isRunning)

-----------------------------------------------------------------------------
(* The two mutexes: OrderBook::displayMutex, locked by matchOrders, and      *)
(* MatchingEngine::displayMutex, locked by the sections of run(). A          *)
(* lock_guard is taken in one step and released in a later one.              *)

\* matchOrders: std::lock_guard<std::mutex> lock(displayMutex), by a caller of
\* addAndValidateOrder; the thread waits while the mutex is held.
CallerLock(s) ==
    /\ pc[s] = "inserted"
    /\ bookDisplayMutex = "free"
    /\ bookDisplayMutex' = "caller"
    /\ pc' = [pc EXCEPT ![s] = "locked"]
    /\ UNCHANGED <<registryVars, bookVars, isRunning, stats, workerVars, ctl, cur,
                   matches, result, local, now, nextOrderId, accepted, expired, regLog,
                   engineDisplayMutex>>

\* The body of matchOrders, notifyMatch included, and the release on return.
CallerSweep(s) ==
    /\ pc[s] = "locked"
    /\ \E m \in {matchOrders(BookState, now)} :
           /\ bidOrders' = m.bids
           /\ askOrders' = m.asks
           /\ trades' = m.trades
           /\ nextTradeId' = m.nextTradeId
           /\ stats' = m.stats
           /\ matches' = [matches EXCEPT ![s] = m.tradesExecuted]
    /\ bookDisplayMutex' = "free"
    /\ pc' = [pc EXCEPT ![s] = "matched"]
    /\ UNCHANGED <<registryVars, isRunning, workerVars, ctl, cur, result, local, now,
                   nextOrderId, accepted, expired, regLog, engineDisplayMutex>>

\* run(): matchingAttempts.fetch_add(1), then the lock_guard of matchOrders.
WorkerLock ==
    /\ workerPc = "match"
    /\ bookDisplayMutex = "free"
    /\ bookDisplayMutex' = "worker"
    /\ stats' = [stats EXCEPT !.matchingAttempts = @ + 1]
    /\ workerPc' = "locked"
    /\ UNCHANGED <<registryVars, bookVars, isRunning, workerNow, lastStatsReset,
                   lastGTDCheck, ctl, submitVars, now, nextOrderId, accepted, expired,
                   regLog, engineDisplayMutex>>

\* The body of matchOrders and the release on return; then, with no mutex of
\* the book held, successfulMatches.fetch_add(matches).
WorkerSweep ==
    /\ workerPc = "locked"
    /\ \E m \in {matchOrders(BookState, now)} :
           /\ bidOrders' = m.bids
           /\ askOrders' = m.asks
           /\ trades' = m.trades
           /\ nextTradeId' = m.nextTradeId
           /\ stats' = [m.stats EXCEPT !.successfulMatches = @ + m.tradesExecuted]
    /\ bookDisplayMutex' = "free"
    /\ workerPc' = "gtd"
    /\ UNCHANGED <<registryVars, isRunning, workerNow, lastStatsReset, lastGTDCheck,
                   ctl, submitVars, now, nextOrderId, accepted, expired, regLog,
                   engineDisplayMutex>>

\* if (now - lastGTDCheck > hours(1)) { std::lock_guard lock(displayMutex); ...
WorkerGTDLock ==
    /\ workerPc = "gtd"
    /\ IF workerNow - lastGTDCheck > GTDCheckHours
       THEN /\ engineDisplayMutex = "free"
            /\ engineDisplayMutex' = "worker"
            /\ workerPc' = "expiring"
       ELSE /\ workerPc' = "sleep"
            /\ UNCHANGED engineDisplayMutex
    /\ UNCHANGED <<registryVars, bookVars, isRunning, stats, workerNow, lastStatsReset,
                   lastGTDCheck, ctl, submitVars, now, nextOrderId, accepted, expired,
                   regLog, bookDisplayMutex>>

\* A variant of WorkerGTDSweep that leaves the block without releasing the
\* engine's mutex.
WorkerGTDSweepHolding ==
    /\ workerPc = "expiring"
    /\ bidOrders' = checkGTDOrders(BookState, now).bids
    /\ askOrders' = checkGTDOrders(BookState, now).asks
    /\ expired' = expired
           \cup (OrdersOf(bidOrders) \ OrdersOf(bidOrders'))
           \cup (OrdersOf(askOrders) \ OrdersOf(askOrders'))
    /\ lastGTDCheck' = workerNow
    /\ workerPc' = "sleep"
    /\ UNCHANGED <<registryVars, trades, nextTradeId, isRunning, stats, workerNow,
                   lastStatsReset, ctl, submitVars, now, nextOrderId, accepted, regLog,
                   mutexVars>>

\* ... checkGTDOrders(); displayGTDOrders(); lastGTDCheck = now; } with the
\* release at the end of the block.
WorkerGTDSweep ==
    /\ workerPc = "expiring"
    /\ bidOrders' = checkGTDOrders(BookState, now).bids
    /\ askOrders' = checkGTDOrders(BookState, now).asks
    /\ expired' = expired
           \cup (OrdersOf(bidOrders) \ OrdersOf(bidOrders'))
           \cup (OrdersOf(askOrders) \ OrdersOf(askOrders'))
    /\ lastGTDCheck' = workerNow
    /\ engineDisplayMutex' = "free"
    /\ workerPc' = "sleep"
    /\ UNCHANGED <<registryVars, trades, nextTradeId, isRunning, stats, workerNow,
                   lastStatsReset, ctl, submitVars, now, nextOrderId, accepted, regLog,
                   bookDisplayMutex>>

\* A bid and an ask of one size that cross.
LockOrders(id) ==
    {Order(id, 1, "XPAR", "EUR", "BID", 155000, 200, "DAY", 0, id),
     Order(id, 1, "XPAR", "EUR", "ASK", 148000, 200, "DAY", 0, id)}

\* One caller, the worker and the clock, which jumps past the hour of the
\* expiry check.
NextLocks ==
    \/ \E order \in LockOrders(nextOrderId) : SubmitCall(1, order)
    \/ SubmitInsert(1)
    \/ CallerLock(1)
    \/ CallerSweep(1)
    \/ SubmitReturn(1)
    \/ Start
    \/ WorkerInit
    \/ WorkerTop
    \/ WorkerLock
    \/ WorkerSweep
    \/ WorkerGTDLock
    \/ WorkerGTDSweep
    \/ WorkerSleep
    \/ DayElapses

\* Threads that are scheduled: a thread that can take its next step takes it,
\* and a thread waiting for a mutex that is free again and again gets it (the
\* worker sleeps a second in every iteration, a caller holds the book's mutex
\* for one sweep).
SpecLocksLive ==
    /\ Init
    /\ [][NextLocks]_vars
    /\ WF_vars(SubmitInsert(1))
    /\ SF_vars(CallerLock(1))
    /\ WF_vars(CallerSweep(1))
    /\ WF_vars(SubmitReturn(1))
    /\ SF_vars(WorkerLock)
    /\ WF_vars(WorkerSweep)
    /\ WF_vars(WorkerGTDLock)
    /\ WF_vars(WorkerGTDSweep)

\* ---------------------------------------------------------------------------
\* C38: the two mutexes and the completion of submits and iterations
\* ---------------------------------------------------------------------------

HoldsBoth(thread) ==
    bookDisplayMutex = thread /\ engineDisplayMutex = thread

SubmitInProgress == pc[1] \in {"called", "inserted", "locked", "matched"}

IterationInProgress == workerPc \in {"match", "locked", "gtd", "expiring"}

EngineStopped == ~isRunning /\ ctl = "idle"

\* A call of addAndValidateOrder is made in this step.
SubmitCallStep == nextOrderId' = nextOrderId + 1

QuietWhileStopped ==
    EngineStopped =>
        /\ stats'.matchingAttempts = stats.matchingAttempts
        /\ stats'.lastReset = stats.lastReset
        /\ lastGTDCheck' = lastGTDCheck
        /\ lastStatsReset' = lastStatsReset
        /\ expired' = expired
        /\ (bidOrders' # bidOrders \/ askOrders' # askOrders \/ trades' # trades)
               => SubmitCallStep

\* C39: after stop() has returned and until the next start(), the worker
\* performs no action: the count of matching attempts does not change, no
\* expiry sweep and no daily reset is made, and the book and the trade log
\* change only through calls of the submission entry.
C39_NoWorkerActionWhileStopped ==
    [][QuietWhileStopped]_vars

\* The engine has run and was stopped, and the calls made since it was
\* started have left trades in the log and an order in the book.
C39_Witness ==
    /\ EngineStopped
    /\ workerPc = "none"
    /\ stats.matchingAttempts > 0
    /\ stats.totalTradeCount > 0
    /\ trades # <<>>
    /\ RestingOrders # {}
    /\ result[1] = "true"

\* ---------------------------------------------------------------------------
\* C40: every trade is well formed
\* ---------------------------------------------------------------------------

\* The trade t was formed from a bid of the best bid level and an ask of the
\* best ask level of the book as it is, the bid priced at or above the ask.
FormedAtBestLevels(t) ==
    /\ t.quantity > 0
    /\ bidOrders # <<>>
    /\ askOrders # <<>>
    /\ \E i \in 1..Len(bidOrders[1].orders), j \in 1..Len(askOrders[1].orders) :
          LET bid == bidOrders[1].orders[i]
              ask == askOrders[1].orders[j]
          IN  /\ bid.idorder = t.buyOrderId
              /\ ask.idorder = t.sellOrderId
              /\ bid.ordertype = "BID"
              /\ ask.ordertype = "ASK"
              /\ bid.price >= ask.price
              /\ t.quantity <= bid.quantity
              /\ t.quantity <= ask.quantity
    /\ \A l \in 2..Len(bidOrders) : bidOrders[l].price < bidOrders[1].price
    /\ \A l \in 2..Len(askOrders) : askOrders[l].price > askOrders[1].price

NewTradesWellFormed ==
    \A k \in (Len(trades) + 1)..Len(trades') : FormedAtBestLevels(trades'[k])

\* C40: every trade has a quantity above zero and was formed from a bid and an
\* ask with bid price >= ask price, both taken from the first (best) level of
\* their side at the moment of the trade, when all orders entered the book
\* through the submission entry.
C40_TradesWellFormed ==
    [][NewTradesWellFormed]_vars

\* A bid at the higher price has traded with an ask at the lower price while
\* a bid at the lower price rests behind the level of the first.
C40_Witness ==
    /\ trades # <<>>
    /\ AcceptedById(trades[Len(trades)].buyOrderId).price
           > AcceptedById(trades[Len(trades)].sellOrderId).price
    /\ \E o \in OrdersOf(bidOrders) :
          /\ o.price < AcceptedById(trades[Len(trades)].buyOrderId).price
          /\ o.idorder < trades[Len(trades)].buyOrderId

====
